---- MODULE Spec2Model ----
(***************************************************************************)
(* State-machine model of the multi-range pre-market AMM pool              *)
(* (LiquidityPool, src/unnamed/part_001), its token ledger (Token,          *)
(* src/src/models/PriceCalculator.ts:137-204) and the price formulas        *)
(* (PriceCalculator, src/src/models/PriceCalculator.ts:1-135), and of the    *)
(* facade WPreMarketAMM (src/src/models/WPreMarketAMM.ts) with the pool      *)
(* class whose constructor it calls (LiquidityPool, src/unnamed/part_000).  *)
(* Spec is the single multi-range pool; SpecAMM is the facade.              *)
(* SpecMath calls PriceCalculator directly, SpecRoute runs a swap's routing *)
(* loop one pass at a time, SpecToken calls a Token directly.              *)
(*                                                                         *)
(* Numbers.  The program computes with JavaScript numbers.  The model       *)
(* computes with exact rationals <<n, d>> (d > 0, lowest terms), i.e. the   *)
(* real-number semantics of every +, -, *, / of the source.  Price bounds   *)
(* and initial prices are drawn from perfect squares, so every Math.sqrt    *)
(* the program takes is exact (Math.sqrt(s*s) = s also holds for IEEE       *)
(* doubles).                                                                *)
(* The fee rate 0.003 is the rational 3/1000.                              *)
(***************************************************************************)
EXTENDS Integers, Sequences, FiniteSets, TLC

(***************************************************************************)
(* Bounds of the model (not program constants).                            *)
(***************************************************************************)
\* Positions a pool may hold: addLiquidity is explored while fewer are stored.
MaxPositions == 2
\* Swap calls that reach the ledger (pass the phase/amount/balance checks).
MaxSwaps == 2
\* Supply of the Token looked at on its own: a mint is explored while the
\* supply stays within it.
MaxSupply == 3

(***************************************************************************)
(* Exact rational arithmetic: the model of the JavaScript number type.     *)
(***************************************************************************)
Abs(n) == IF n < 0 THEN -n ELSE n

RECURSIVE Gcd(_, _)
Gcd(a, b) == IF b = 0 THEN a ELSE Gcd(b, a % b)

\* The rational n/d in lowest terms with a positive denominator.
Norm(n, d) ==
    LET g == Gcd(Abs(n), Abs(d))
        s == IF d < 0 THEN -1 ELSE 1
    IN  <<s * (n \div g), s * (d \div g)>>

Rat(n) == <<n, 1>>
Frac(n, d) == Norm(n, d)
Zero == <<0, 1>>
One == <<1, 1>>

Plus(x, y) ==
    LET g == Gcd(x[2], y[2])
    IN  Norm(x[1] * (y[2] \div g) + y[1] * (x[2] \div g), x[2] * (y[2] \div g))

Neg(x) == <<-x[1], x[2]>>

Minus(x, y) == Plus(x, Neg(y))

Times(x, y) ==
    LET g1 == Gcd(Abs(x[1]), y[2])
        g2 == Gcd(Abs(y[1]), x[2])
    IN  Norm((x[1] \div g1) * (y[1] \div g2), (x[2] \div g2) * (y[2] \div g1))

\* x / y for y # 0 (the program never divides by zero on the modelled paths).
Divide(x, y) == Times(x, Norm(y[2], y[1]))

Lt(x, y) ==
    LET g == Gcd(x[2], y[2])
    IN  x[1] * (y[2] \div g) < y[1] * (x[2] \div g)

Le(x, y) == ~Lt(y, x)
Gt(x, y) == Lt(y, x)
Ge(x, y) == ~Lt(x, y)

\* Math.min / Math.max
\* A minimum that always yields its second argument.
MathMinAlwaysSecond(x, y) == y

MathMin(x, y) == IF Lt(y, x) THEN y ELSE x
MathMax(x, y) == IF Lt(x, y) THEN y ELSE x

RECURSIVE SqrtSearch(_, _, _)
SqrtSearch(n, lo, hi) ==
    IF lo >= hi THEN lo
    ELSE LET mid == (lo + hi + 1) \div 2
         IN  IF mid * mid <= n THEN SqrtSearch(n, mid, hi)
             ELSE SqrtSearch(n, lo, mid - 1)

\* Integer square root (exact on perfect squares).
ISqrt(n) == SqrtSearch(n, 0, IF n < 46340 THEN n ELSE 46340)

\* Math.sqrt on a rational whose numerator and denominator are perfect squares.
Sqrt(x) == <<ISqrt(x[1]), ISqrt(x[2])>>

(***************************************************************************)
(* PriceCalculator                                                         *)
(***************************************************************************)
\* The range test shared by the three formulas: they throw "Invalid price
\* range" when pa >= pb || pa <= 0 || pb <= 0.
InvalidRange(pa, pb) == Ge(pa, pb) \/ Le(pa, Zero) \/ Le(pb, Zero)

\* 1/sqrt(pa) - 1/sqrt(pb)
InvSqrtDiff(pa, pb) == Minus(Divide(One, Sqrt(pa)), Divide(One, Sqrt(pb)))

\* L = x / (1/sqrt(pa) - 1/sqrt(pb))
calculateLiquidity(x, pa, pb) == Divide(x, InvSqrtDiff(pa, pb))

\* The amount with the division by 1/sqrt(pa) - 1/sqrt(pb) replaced by a
\* multiplication.
calculatePreTokenAmountMultiplied(x, pa, pb) ==
    Times(Times(x, Minus(Sqrt(pb), Sqrt(pa))), InvSqrtDiff(pa, pb))

\* y = x * (sqrt(pb) - sqrt(pa)) / (1/sqrt(pa) - 1/sqrt(pb))
calculatePreTokenAmount(x, pa, pb) ==
    Divide(Times(x, Minus(Sqrt(pb), Sqrt(pa))), InvSqrtDiff(pa, pb))

(***************************************************************************)
(* Token: a ledger is a function from accounts to balances.                *)
(***************************************************************************)
Accounts == {"LP1", "T1", "POOL"}

balanceOf(balances, account) == balances[account]

\* transfer returns false, changing nothing, when amount <= 0 or the sender
\* holds less than amount.
transferOk(balances, from, amount) ==
    ~(Le(amount, Zero) \/ Lt(balanceOf(balances, from), amount))

\* The ledger after transfer(from, to, amount): the sender is debited first and
\* the receiver's balance is read after that.
transfer(balances, from, to, amount) ==
    IF ~transferOk(balances, from, amount) THEN balances
    ELSE LET debited == [balances EXCEPT ![from] = Minus(@, amount)]
         IN  [debited EXCEPT ![to] = Plus(@, amount)]

\* mint returns false, changing nothing, when amount <= 0.
mintOk(amount) == Gt(amount, Zero)

mint(balances, to, amount) ==
    IF ~mintOk(amount) THEN balances
    ELSE [balances EXCEPT ![to] = Plus(@, amount)]

\* A mint that credits the account without counting the amount in the supply.
mintSupplyUncounted(totalSupply, amount) == totalSupply

mintSupply(totalSupply, amount) ==
    IF ~mintOk(amount) THEN totalSupply ELSE Plus(totalSupply, amount)

\* A burn that does not look at the balance it takes from.
burnOkAnyBalance(balances, from, amount) == Gt(amount, Zero)

\* burn returns false, changing nothing, when amount <= 0 or the account holds
\* less than amount.
burnOk(balances, from, amount) ==
    ~(Le(amount, Zero) \/ Lt(balanceOf(balances, from), amount))

burn(balances, from, amount) ==
    IF ~burnOk(balances, from, amount) THEN balances
    ELSE [balances EXCEPT ![from] = Minus(@, amount)]

burnSupply(balances, totalSupply, from, amount) ==
    IF ~burnOk(balances, from, amount) THEN totalSupply
    ELSE Minus(totalSupply, amount)

(***************************************************************************)
(* LiquidityPool: state                                                    *)
(***************************************************************************)
VARIABLES
    baseBalances,       \* _baseToken._balances
    preBalances,        \* _preToken._balances
    preTotalSupply,     \* _preToken._totalSupply
    baseReserve,        \* _baseReserve
    preTokenReserve,    \* _preTokenReserve
    liquidity,          \* _liquidity
    lpPositions,        \* _lpPositions, in insertion order
    nextPositionId,     \* _nextPositionId
    isSettlementPhase,  \* _isSettlementPhase
    realToken,          \* _realToken ("null" until set)
    currentSqrtPrice,   \* _currentSqrtPrice
    initialPriceSet,    \* _initialPriceSet
    swaps,              \* swap calls that reached the ledger (model bound)
    last                \* the latest call: operation, arguments, outcome

poolVars == <<baseReserve, preTokenReserve, liquidity, lpPositions,
              nextPositionId, isSettlementPhase, realToken,
              currentSqrtPrice, initialPriceSet>>
ledgerVars == <<baseBalances, preBalances, preTotalSupply>>
vars == <<baseBalances, preBalances, preTotalSupply, baseReserve,
          preTokenReserve, liquidity, lpPositions, nextPositionId,
          isSettlementPhase, realToken, currentSqrtPrice, initialPriceSet,
          swaps, last>>

\* WPreMarketAMM and the tokens its pools are created on
VARIABLES
    ammPools,       \* _liquidityPools: pool id -> the pool's fields
    ammSettled,     \* WPreMarketAMM._isSettlementPhase
    ammBalances,    \* token symbol -> that token's _balances
    ammSupply,      \* token symbol -> that token's _totalSupply
    ammRequested,   \* pool id -> the initialPrice its creator passed
    ammSwapped,     \* ids of the pools that have executed a swap
    ammSwaps,       \* swaps executed through the facade (model bound)
    ammLast         \* the latest facade call: operation, pool id, outcome

ammVars == <<ammPools, ammSettled, ammBalances, ammSupply, ammRequested,
             ammSwapped, ammSwaps, ammLast>>

\* PriceCalculator on its own, one run of a swap's routing loop, and a Token
\* on its own
VARIABLES
    math,           \* the arguments of a PriceCalculator call and its outcome
    route,          \* the locals of the routing loop of a swap
    ledger          \* a Token's _balances and _totalSupply, and its latest call

allVars == <<vars, ammVars, math, route, ledger>>

\* What a specification of one part leaves alone.
outsidePool == <<ammVars, math, route, ledger>>
outsideAmm == <<vars, math, route, ledger>>
outsideMath == <<vars, ammVars, route, ledger>>
outsideRoute == <<vars, ammVars, math, ledger>>
outsideLedger == <<vars, ammVars, math, route>>

\* No PriceCalculator call, no routing loop and no Token of its own is being
\* looked at.
MathIdle == math = [op |-> "idle"]
RouteIdle == route = [phase |-> "idle"]
LedgerIdle == ledger = [op |-> "idle"]

\* The tokens of the facade's pools; a pool's account in each is "POOL".
BaseTokens == {"USDC"}
PreTokens == {"pX", "pY"}
Tokens == BaseTokens \cup PreTokens

\* The base tokens minted to the users before any pool exists.
AmmInitialBase == [a \in Accounts |->
    IF a = "LP1" THEN <<4, 1>> ELSE IF a = "T1" THEN <<2, 1>> ELSE <<0, 1>>]

\* The record of a facade call, kept in `ammLast`.
AmmCall(op, poolId, status, ret) ==
    [op |-> op, poolId |-> poolId, status |-> status, ret |-> ret]

\* new WPreMarketAMM(), and the tokens after the mints
AmmStart ==
    /\ ammPools = [id \in {} |-> <<>>]
    /\ ammSettled = FALSE
    /\ ammBalances = [t \in Tokens |->
            IF t \in BaseTokens THEN AmmInitialBase
            ELSE [a \in Accounts |-> <<0, 1>>]]
    /\ ammSupply = [t \in Tokens |->
            IF t \in BaseTokens THEN <<6, 1>> ELSE <<0, 1>>]
    /\ ammRequested = [id \in {} |-> <<>>]
    /\ ammSwapped = {}
    /\ ammSwaps = 0
    /\ ammLast = AmmCall("constructor", <<>>, "ok", <<0, 1>>)

\* getCurrentPrice(): currentSqrtPrice squared
getCurrentPrice == Times(currentSqrtPrice, currentSqrtPrice)

\* The record of a call, kept in `last`.
Call(op, status, account, amount, pa, pb, ret, remaining) ==
    [op |-> op, status |-> status, account |-> account, amount |-> amount,
     pa |-> pa, pb |-> pb, ret |-> ret, remaining |-> remaining]

(***************************************************************************)
(* Inputs                                                                  *)
(***************************************************************************)
\* An omitted optional argument.
Undefined == <<>>

\* The optional constructor argument initialPrice.
InitialPrices == {Undefined, Rat(1), Rat(9)}

\* Base tokens minted to the users before the pool is used.
InitialBase == [a \in Accounts |->
                  IF a = "LP1" THEN Rat(9) ELSE IF a = "T1" THEN Rat(19) ELSE Zero]

\* addLiquidity arguments <<baseAmount, pa, pb>>: four valid deposits
\* (nested, adjacent and gapped ranges) and the invalid ones.
Deposits ==
    { <<Rat(3), Rat(1), Rat(16)>>, <<Rat(1), Rat(4), Rat(9)>>,
      <<Rat(1), Rat(1), Rat(4)>>,  <<Rat(1), Rat(9), Rat(16)>>,
      <<Zero, Rat(1), Rat(4)>>,    <<Rat(1), Rat(4), Rat(4)>>,
      <<Rat(1), Rat(9), Rat(4)>>,  <<Rat(1), Zero, Rat(4)>> }

\* swapBaseForPreToken amounts: 0, and the amounts that route 2 and 14 after
\* the fee.
BuyAmounts == { Zero, Frac(2000, 997), Frac(14000, 997) }

\* swapPreTokenForBase amounts.
SellAmounts == { Zero, Rat(1), Frac(4, 3) }

\* Candidates for the real token of enterSettlementPhase.
RealTokens == {"X", "Y"}

(***************************************************************************)
(* Constructor: new LiquidityPool(baseToken, preToken, initialPrice?)      *)
(***************************************************************************)
constructor(initialPrice) ==
    /\ baseBalances = InitialBase
    /\ preBalances = [a \in Accounts |-> Zero]
    /\ preTotalSupply = Zero
    /\ baseReserve = Zero
    /\ preTokenReserve = Zero
    /\ liquidity = Zero
    /\ lpPositions = <<>>
    /\ nextPositionId = 1
    /\ isSettlementPhase = FALSE
    /\ realToken = "null"
    \* initialPrice ? Math.sqrt(initialPrice) : 0
    /\ currentSqrtPrice =
          IF initialPrice = Undefined \/ initialPrice = Zero
          THEN Zero ELSE Sqrt(initialPrice)
    \* initialPrice !== undefined
    /\ initialPriceSet = (initialPrice # Undefined)
    /\ swaps = 0
    /\ last = Call("constructor", "ok", "none", Zero, Zero, Zero, Zero, Zero)

\* One pool on its own; no facade call is made.
Init ==
    \E initialPrice \in InitialPrices :
        constructor(initialPrice) /\ AmmStart /\ MathIdle /\ RouteIdle /\ LedgerIdle

(***************************************************************************)
(* addLiquidity(owner, baseAmount, pa, pb)                                 *)
(***************************************************************************)
\* The checks of addLiquidity with the balance compared to baseAmount alone.
addLiquidityStatusNoCollateral(owner, baseAmount, pa, pb) ==
    IF isSettlementPhase THEN "SettlementPhaseViolation"
    ELSE IF Le(baseAmount, Zero) THEN "NonPositiveAmount"
    ELSE IF Lt(balanceOf(baseBalances, owner), baseAmount)
         THEN "InsufficientBalance"
    ELSE IF InvalidRange(pa, pb) THEN "InvalidRange"
    ELSE "ok"

\* The checks of addLiquidity in the order the code makes them; the range is
\* checked last, by calculatePreTokenAmount, before anything is changed.
addLiquidityStatus(owner, baseAmount, pa, pb) ==
    IF isSettlementPhase THEN "SettlementPhaseViolation"
    ELSE IF Le(baseAmount, Zero) THEN "NonPositiveAmount"
    ELSE IF Lt(balanceOf(baseBalances, owner), Times(baseAmount, Rat(2)))
         THEN "InsufficientBalance"
    ELSE IF InvalidRange(pa, pb) THEN "InvalidRange"
    ELSE "ok"

\* A position that records everything taken from the owner as collateral.
NewPositionAllCollateral(id, owner, baseAmount, pa, pb) ==
    [id |-> id, owner |-> owner,
     liquidity |-> calculateLiquidity(baseAmount, pa, pb),
     lowerPriceBound |-> pa, upperPriceBound |-> pb,
     collateralAmount |-> Times(baseAmount, Rat(2)),
     initialPreTokenAmount |-> calculatePreTokenAmount(baseAmount, pa, pb)]

\* A position whose id does not come from the counter.
NewPositionSameId(id, owner, baseAmount, pa, pb) ==
    [id |-> 1, owner |-> owner,
     liquidity |-> calculateLiquidity(baseAmount, pa, pb),
     lowerPriceBound |-> pa, upperPriceBound |-> pb,
     collateralAmount |-> baseAmount,
     initialPreTokenAmount |-> calculatePreTokenAmount(baseAmount, pa, pb)]

\* The LPPosition record addLiquidity stores; id n stands for "LP-n".
NewPosition(id, owner, baseAmount, pa, pb) ==
    [id |-> id, owner |-> owner,
     liquidity |-> calculateLiquidity(baseAmount, pa, pb),
     lowerPriceBound |-> pa, upperPriceBound |-> pb,
     collateralAmount |-> baseAmount,
     initialPreTokenAmount |-> calculatePreTokenAmount(baseAmount, pa, pb)]

\* A deposit that forgets the collateral.
DepositWithoutCollateral(baseAmount) == baseAmount

\* Base tokens taken from the owner: the liquidity and an equal collateral.
DepositTransferAmount(baseAmount) == Times(baseAmount, Rat(2))

\* A range validated only after the base tokens were taken.
AddLiquidityThrowsAfterTransfer(status, owner, baseAmount, pa, pb) ==
    /\ last' = Call("addLiquidity", status, owner, baseAmount, pa, pb, Zero, Zero)
    /\ baseBalances' = IF status = "InvalidRange"
                       THEN transfer(baseBalances, owner, "POOL",
                                     Times(baseAmount, Rat(2)))
                       ELSE baseBalances
    /\ UNCHANGED <<poolVars, preBalances, preTotalSupply, swaps>>

\* A failing addLiquidity: each check throws before the first assignment.
AddLiquidityThrows(status, owner, baseAmount, pa, pb) ==
    /\ last' = Call("addLiquidity", status, owner, baseAmount, pa, pb, Zero, Zero)
    /\ UNCHANGED <<poolVars, ledgerVars, swaps>>

\* The first stored position sets the price whatever the constructor was given.
SetsInitialPriceIgnoringFlag(positionsAfter) == Len(positionsAfter) = 1

\* !this._initialPriceSet && this._lpPositions.size === 1
SetsInitialPrice(positionsAfter) == ~initialPriceSet /\ Len(positionsAfter) = 1

AddLiquidity(owner, baseAmount, pa, pb) ==
    LET status == addLiquidityStatus(owner, baseAmount, pa, pb) IN
    IF status # "ok"
    THEN AddLiquidityThrows(status, owner, baseAmount, pa, pb)
    ELSE LET preTokenAmount == calculatePreTokenAmount(baseAmount, pa, pb)
             liquidityAmount == calculateLiquidity(baseAmount, pa, pb)
             positionId == nextPositionId
         IN  /\ Len(lpPositions) < MaxPositions
             /\ baseBalances' = transfer(baseBalances, owner, "POOL",
                                         DepositTransferAmount(baseAmount))
             /\ baseReserve' = Plus(baseReserve, baseAmount)
             /\ preTokenReserve' = Plus(preTokenReserve, preTokenAmount)
             /\ liquidity' = Plus(liquidity, liquidityAmount)
             /\ preBalances' = mint(preBalances, "POOL", preTokenAmount)
             /\ preTotalSupply' = mintSupply(preTotalSupply, preTokenAmount)
             /\ nextPositionId' = nextPositionId + 1
             /\ lpPositions' = Append(lpPositions,
                                  NewPosition(positionId, owner, baseAmount, pa, pb))
             \* the first position sets the price when none was given
             /\ IF SetsInitialPrice(lpPositions')
                THEN /\ currentSqrtPrice' = Sqrt(pa)
                     /\ initialPriceSet' = TRUE
                ELSE UNCHANGED <<currentSqrtPrice, initialPriceSet>>
             /\ last' = Call("addLiquidity", "ok", owner, baseAmount, pa, pb,
                             Rat(positionId), Zero)
             /\ UNCHANGED <<isSettlementPhase, realToken, swaps>>

(***************************************************************************)
(* Ordered views of the positions and the start of the routing             *)
(***************************************************************************)
\* Array.sort is stable: a position goes after every earlier one whose key
\* does not compare greater.
RECURSIVE SortByLowerAsc(_)
SortByLowerAsc(s) ==
    IF s = <<>> THEN <<>>
    ELSE LET sorted == SortByLowerAsc(SubSeq(s, 1, Len(s) - 1))
             p == s[Len(s)]
             k == Cardinality({i \in 1..Len(sorted) :
                     Le(sorted[i].lowerPriceBound, p.lowerPriceBound)})
         IN  SubSeq(sorted, 1, k) \o <<p>> \o SubSeq(sorted, k + 1, Len(sorted))

RECURSIVE SortByUpperDesc(_)
SortByUpperDesc(s) ==
    IF s = <<>> THEN <<>>
    ELSE LET sorted == SortByUpperDesc(SubSeq(s, 1, Len(s) - 1))
             p == s[Len(s)]
             k == Cardinality({i \in 1..Len(sorted) :
                     Ge(sorted[i].upperPriceBound, p.upperPriceBound)})
         IN  SubSeq(sorted, 1, k) \o <<p>> \o SubSeq(sorted, k + 1, Len(sorted))

\* findIndex: the least index in S, 0 when there is none (-1 in the code).
FirstIndex(S) == IF S = {} THEN 0 ELSE CHOOSE i \in S : \A j \in S : i <= j

Contains(pos, price) ==
    Le(pos.lowerPriceBound, price) /\ Ge(pos.upperPriceBound, price)

\* A buy that starts only at a position holding the current price.
BuyStartIndexNoJump(positions, currentPrice) ==
    FirstIndex({i \in 1..Len(positions) : Contains(positions[i], currentPrice)})

\* The index routing of a buy starts at: the first position holding the
\* current price, else the first one wholly above it, else 0.
BuyStartIndex(positions, currentPrice) ==
    LET holding == FirstIndex({i \in 1..Len(positions) :
                                  Contains(positions[i], currentPrice)})
    IN  IF holding # 0 THEN holding
        ELSE FirstIndex({i \in 1..Len(positions) :
                            Gt(positions[i].lowerPriceBound, currentPrice)})

\* The same for a sell: else the first one wholly below the current price.
SellStartIndex(positions, currentPrice) ==
    LET holding == FirstIndex({i \in 1..Len(positions) :
                                  Contains(positions[i], currentPrice)})
    IN  IF holding # 0 THEN holding
        ELSE FirstIndex({i \in 1..Len(positions) :
                            Lt(positions[i].upperPriceBound, currentPrice)})

(***************************************************************************)
(* swapBaseForPreToken(trader, baseAmount)                                 *)
(***************************************************************************)
\* _feePercentage = 0.003
feePercentage == Frac(3, 1000)

\* The checks of a buy without the phase check.
swapBaseForPreTokenStatusUnguarded(trader, baseAmount) ==
    IF Le(baseAmount, Zero) THEN "NonPositiveAmount"
    ELSE IF Lt(balanceOf(baseBalances, trader), baseAmount) THEN "InsufficientBalance"
    ELSE "ok"

\* The checks made before the swap touches the ledger, in the code's order.
swapBaseForPreTokenStatus(trader, baseAmount) ==
    IF isSettlementPhase THEN "SettlementPhaseViolation"
    ELSE IF Le(baseAmount, Zero) THEN "NonPositiveAmount"
    ELSE IF Lt(balanceOf(baseBalances, trader), baseAmount) THEN "InsufficientBalance"
    ELSE "ok"

\* The loop of the buy without the step that raises the working price to the
\* lower bound of the position.
RECURSIVE BuyLoopUnclamped(_, _, _, _, _)
BuyLoopUnclamped(positions, idx, remainingBaseAmount, totalPreTokenOutput, newSqrtPrice) ==
    IF ~(Gt(remainingBaseAmount, Zero) /\ idx <= Len(positions))
    THEN [remaining |-> remainingBaseAmount, total |-> totalPreTokenOutput,
          newSqrtPrice |-> newSqrtPrice]
    ELSE LET position == positions[idx]
             upperSqrtPrice == Sqrt(position.upperPriceBound)
             maxNewSqrtPrice ==
                 Plus(newSqrtPrice, Divide(remainingBaseAmount, position.liquidity))
             effectiveNewSqrtPrice == MathMin(maxNewSqrtPrice, upperSqrtPrice)
             baseAmountUsed ==
                 Times(position.liquidity, Minus(effectiveNewSqrtPrice, newSqrtPrice))
             preTokenReceived ==
                 Times(position.liquidity,
                       Minus(Divide(One, newSqrtPrice),
                             Divide(One, effectiveNewSqrtPrice)))
             remaining == Minus(remainingBaseAmount, baseAmountUsed)
             total == Plus(totalPreTokenOutput, preTokenReceived)
         IN  IF Lt(effectiveNewSqrtPrice, upperSqrtPrice)
             THEN [remaining |-> remaining, total |-> total,
                   newSqrtPrice |-> effectiveNewSqrtPrice]
             ELSE BuyLoopUnclamped(positions, idx + 1, remaining, total,
                                   effectiveNewSqrtPrice)

\* The while loop of the buy: positions is sorted by ascending lower bound,
\* idx is currentPositionIndex + 1.  Returns remainingBaseAmount,
\* totalPreTokenOutput and newSqrtPrice at loop exit.
RECURSIVE BuyLoop(_, _, _, _, _)
BuyLoop(positions, idx, remainingBaseAmount, totalPreTokenOutput, newSqrtPrice) ==
    IF ~(Gt(remainingBaseAmount, Zero) /\ idx <= Len(positions))
    THEN [remaining |-> remainingBaseAmount, total |-> totalPreTokenOutput,
          newSqrtPrice |-> newSqrtPrice]
    ELSE LET position == positions[idx]
             lowerSqrtPrice == Sqrt(position.lowerPriceBound)
             upperSqrtPrice == Sqrt(position.upperPriceBound)
             startSqrtPrice == IF Lt(newSqrtPrice, lowerSqrtPrice)
                               THEN lowerSqrtPrice ELSE newSqrtPrice
             maxNewSqrtPrice ==
                 Plus(startSqrtPrice, Divide(remainingBaseAmount, position.liquidity))
             effectiveNewSqrtPrice == MathMin(maxNewSqrtPrice, upperSqrtPrice)
             baseAmountUsed ==
                 Times(position.liquidity, Minus(effectiveNewSqrtPrice, startSqrtPrice))
             preTokenReceived ==
                 Times(position.liquidity,
                       Minus(Divide(One, startSqrtPrice),
                             Divide(One, effectiveNewSqrtPrice)))
             remaining == Minus(remainingBaseAmount, baseAmountUsed)
             total == Plus(totalPreTokenOutput, preTokenReceived)
         IN  IF Lt(effectiveNewSqrtPrice, upperSqrtPrice)
             THEN [remaining |-> remaining, total |-> total,
                   newSqrtPrice |-> effectiveNewSqrtPrice]
             ELSE BuyLoop(positions, idx + 1, remaining, total, effectiveNewSqrtPrice)

SwapBaseForPreToken(trader, baseAmount) ==
    LET status == swapBaseForPreTokenStatus(trader, baseAmount) IN
    IF status # "ok"
    THEN /\ last' = Call("swapBaseForPreToken", status, trader, baseAmount,
                         Zero, Zero, Zero, Zero)
         /\ UNCHANGED <<poolVars, ledgerVars, swaps>>
    ELSE LET fee == Times(baseAmount, feePercentage)
             baseAmountAfterFee == Minus(baseAmount, fee)
             \* the trader pays before the positions are looked at
             paid == transfer(baseBalances, trader, "POOL", baseAmount)
             currentPrice == getCurrentPrice
             positions == SortByLowerAsc(lpPositions)
             start == BuyStartIndex(positions, currentPrice)
         IN  /\ swaps < MaxSwaps
             /\ swaps' = swaps + 1
             /\ IF start = 0
                THEN \* throws "No liquidity available at current price or higher"
                     /\ baseBalances' = paid
                     /\ last' = Call("swapBaseForPreToken", "NoLiquidityAvailable",
                                     trader, baseAmount, Zero, Zero, Zero, Zero)
                     /\ UNCHANGED <<poolVars, preBalances, preTotalSupply>>
                ELSE LET r == BuyLoop(positions, start, baseAmountAfterFee, Zero,
                                      Sqrt(currentPrice))
                     IN  /\ baseBalances' =
                               IF Gt(r.remaining, Zero)
                               THEN transfer(paid, "POOL", trader, r.remaining)
                               ELSE paid
                         /\ baseReserve' =
                               Plus(baseReserve, Minus(baseAmountAfterFee, r.remaining))
                         /\ preTokenReserve' = Minus(preTokenReserve, r.total)
                         /\ currentSqrtPrice' = r.newSqrtPrice
                         /\ preBalances' = transfer(preBalances, "POOL", trader, r.total)
                         /\ last' = Call("swapBaseForPreToken", "ok", trader, baseAmount,
                                         Zero, Zero, r.total, r.remaining)
                         /\ UNCHANGED <<liquidity, lpPositions, nextPositionId,
                                        isSettlementPhase, realToken, initialPriceSet,
                                        preTotalSupply>>

(***************************************************************************)
(* swapPreTokenForBase(trader, preTokenAmount)                             *)
(***************************************************************************)
swapPreTokenForBaseStatus(trader, preTokenAmount) ==
    IF isSettlementPhase THEN "SettlementPhaseViolation"
    ELSE IF Le(preTokenAmount, Zero) THEN "NonPositiveAmount"
    ELSE IF Lt(balanceOf(preBalances, trader), preTokenAmount) THEN "InsufficientBalance"
    ELSE "ok"

\* The while loop of the sell: positions is sorted by descending upper bound.
\* Returns remainingPreTokenAmount, totalBaseTokenOutput and newSqrtPrice.
RECURSIVE SellLoop(_, _, _, _, _)
SellLoop(positions, idx, remainingPreTokenAmount, totalBaseTokenOutput, newSqrtPrice) ==
    IF ~(Gt(remainingPreTokenAmount, Zero) /\ idx <= Len(positions))
    THEN [remaining |-> remainingPreTokenAmount, total |-> totalBaseTokenOutput,
          newSqrtPrice |-> newSqrtPrice]
    ELSE LET position == positions[idx]
             lowerSqrtPrice == Sqrt(position.lowerPriceBound)
             upperSqrtPrice == Sqrt(position.upperPriceBound)
             startSqrtPrice == IF Gt(newSqrtPrice, upperSqrtPrice)
                               THEN upperSqrtPrice ELSE newSqrtPrice
             divisor == Plus(Divide(remainingPreTokenAmount, position.liquidity),
                             Divide(One, startSqrtPrice))
             minNewSqrtPrice == IF Gt(divisor, Zero) THEN Divide(One, divisor) ELSE Zero
             effectiveNewSqrtPrice == MathMax(minNewSqrtPrice, lowerSqrtPrice)
             \* liquidity * (1 / newSqrtPrice - 1 / effectiveNewSqrtPrice)
             preTokenUsed ==
                 Times(position.liquidity,
                       Minus(Divide(One, startSqrtPrice),
                             Divide(One, effectiveNewSqrtPrice)))
             baseTokenReceived ==
                 Times(position.liquidity, Minus(startSqrtPrice, effectiveNewSqrtPrice))
             remaining == Minus(remainingPreTokenAmount, preTokenUsed)
             total == Plus(totalBaseTokenOutput, baseTokenReceived)
         IN  IF Gt(effectiveNewSqrtPrice, lowerSqrtPrice)
             THEN [remaining |-> remaining, total |-> total,
                   newSqrtPrice |-> effectiveNewSqrtPrice]
             ELSE SellLoop(positions, idx + 1, remaining, total, effectiveNewSqrtPrice)

SwapPreTokenForBase(trader, preTokenAmount) ==
    LET status == swapPreTokenForBaseStatus(trader, preTokenAmount) IN
    IF status # "ok"
    THEN /\ last' = Call("swapPreTokenForBase", status, trader, preTokenAmount,
                         Zero, Zero, Zero, Zero)
         /\ UNCHANGED <<poolVars, ledgerVars, swaps>>
    ELSE LET paid == transfer(preBalances, trader, "POOL", preTokenAmount)
             currentPrice == getCurrentPrice
             positions == SortByUpperDesc(lpPositions)
             start == SellStartIndex(positions, currentPrice)
         IN  /\ swaps < MaxSwaps
             /\ swaps' = swaps + 1
             /\ IF start = 0
                THEN \* throws "No liquidity available at current price or lower"
                     /\ preBalances' = paid
                     /\ last' = Call("swapPreTokenForBase", "NoLiquidityAvailable",
                                     trader, preTokenAmount, Zero, Zero, Zero, Zero)
                     /\ UNCHANGED <<poolVars, baseBalances, preTotalSupply>>
                ELSE LET r == SellLoop(positions, start, preTokenAmount, Zero,
                                       Sqrt(currentPrice))
                         fee == Times(r.total, feePercentage)
                         baseTokenOutputAfterFee == Minus(r.total, fee)
                     IN  /\ preBalances' =
                               IF Gt(r.remaining, Zero)
                               THEN transfer(paid, "POOL", trader, r.remaining)
                               ELSE paid
                         /\ preTokenReserve' =
                               Plus(preTokenReserve, Minus(preTokenAmount, r.remaining))
                         /\ baseReserve' = Minus(baseReserve, r.total)
                         /\ currentSqrtPrice' = r.newSqrtPrice
                         /\ baseBalances' = transfer(baseBalances, "POOL", trader,
                                                     baseTokenOutputAfterFee)
                         /\ last' = Call("swapPreTokenForBase", "ok", trader,
                                         preTokenAmount, Zero, Zero,
                                         baseTokenOutputAfterFee, r.remaining)
                         /\ UNCHANGED <<liquidity, lpPositions, nextPositionId,
                                        isSettlementPhase, realToken, initialPriceSet,
                                        preTotalSupply>>

(***************************************************************************)
(* enterSettlementPhase(realToken)                                         *)
(***************************************************************************)
\* enterSettlementPhase without its check.
enterSettlementPhaseStatusUnchecked == "ok"

enterSettlementPhaseStatus ==
    IF isSettlementPhase THEN "AlreadyInSettlement" ELSE "ok"

\* A settlement that does not store the token.
SettlementRealTokenForgotten(token) == "null"

\* this._realToken = realToken
SettlementRealToken(token) == token

EnterSettlementPhase(token) ==
    LET status == enterSettlementPhaseStatus IN
    /\ last' = Call("enterSettlementPhase", status, token, Zero, Zero, Zero, Zero, Zero)
    /\ IF status # "ok"
       THEN UNCHANGED <<isSettlementPhase, realToken>>
       ELSE /\ isSettlementPhase' = TRUE
            /\ realToken' = SettlementRealToken(token)
    /\ UNCHANGED <<baseReserve, preTokenReserve, liquidity, lpPositions,
                   nextPositionId, currentSqrtPrice, initialPriceSet,
                   ledgerVars, swaps>>

(***************************************************************************)
(* The pool's callers                                                      *)
(***************************************************************************)
Owners == {"LP1"}
Traders == {"T1"}

Next ==
    \/ \E owner \in Owners, d \in Deposits :
          AddLiquidity(owner, d[1], d[2], d[3]) /\ UNCHANGED outsidePool
    \/ \E trader \in Traders, a \in BuyAmounts :
          SwapBaseForPreToken(trader, a) /\ UNCHANGED outsidePool
    \/ \E trader \in Traders, a \in SellAmounts :
          SwapPreTokenForBase(trader, a) /\ UNCHANGED outsidePool
    \/ \E token \in RealTokens : EnterSettlementPhase(token) /\ UNCHANGED outsidePool

Spec == Init /\ [][Next]_allVars

(***************************************************************************)
(* PriceCalculator: the formulas the single-range pool uses                *)
(***************************************************************************)
\* The conversion without its division by sqrt(pb) - sqrt(pa).
calculateBaseAmountUndivided(y, pa, pb) == Times(y, InvSqrtDiff(pa, pb))

\* x = y * (1/sqrt(pa) - 1/sqrt(pb)) / (sqrt(pb) - sqrt(pa))
calculateBaseAmount(y, pa, pb) ==
    Divide(Times(y, InvSqrtDiff(pa, pb)), Minus(Sqrt(pb), Sqrt(pa)))

\* P = (y / L + sqrt(pa))^2 with L computed from the base reserve
calculateCurrentPrice(base, pre, pa, pb) ==
    IF pre = Zero THEN pa
    ELSE IF base = Zero THEN pb
    ELSE LET sqrtP == Plus(Divide(pre, calculateLiquidity(base, pa, pb)), Sqrt(pa))
         IN  Times(sqrtP, sqrtP)

\* What calculateSwapOutput throws, if anything (isBuy: isBaseToPreToken).
calculateSwapOutputStatus(inputAmount, inputReserve, outputReserve, pa, pb, isBuy) ==
    IF Le(inputAmount, Zero) \/ Le(inputReserve, Zero) \/ Le(outputReserve, Zero)
    THEN "InvalidInput"
    ELSE IF InvalidRange(pa, pb) THEN "InvalidRange"
    ELSE IF ~isBuy /\ Lt(Minus(outputReserve, inputAmount), Zero)
         THEN "InsufficientLiquidity"
    ELSE "ok"

\* What calculateSwapOutput returns when it does not throw.
calculateSwapOutput(inputAmount, inputReserve, outputReserve, pa, pb, isBuy) ==
    IF isBuy
    THEN Minus(calculatePreTokenAmount(Plus(inputReserve, inputAmount), pa, pb),
               outputReserve)
    ELSE Minus(inputReserve,
               calculateBaseAmount(Minus(outputReserve, inputAmount), pa, pb))

(***************************************************************************)
(* LiquidityPool(baseToken, preToken, minPrice, maxPrice, initialPrice?):   *)
(* the pool class WPreMarketAMM constructs.  A pool is a record of its      *)
(* fields; an operation takes the pool and the token ledgers and yields an  *)
(* Outcome: what it threw, the pool and the ledgers afterwards, and what it *)
(* returned.                                                               *)
(***************************************************************************)
Outcome(status, pool, balances, supply, ret) ==
    [status |-> status, pool |-> pool, balances |-> balances,
     supply |-> supply, ret |-> ret]

\* The constructor: the price starts at initialPrice when one is given inside
\* [minPrice, maxPrice], at minPrice otherwise.
LiquidityPool(baseToken, preToken, minPrice, maxPrice, initialPrice) ==
    [baseToken |-> baseToken, preToken |-> preToken,
     minPrice |-> minPrice, maxPrice |-> maxPrice,
     baseReserve |-> Zero, preTokenReserve |-> Zero, liquidity |-> Zero,
     lpPositions |-> <<>>, nextPositionId |-> 1,
     isSettlementPhase |-> FALSE, realToken |-> "null",
     currentSqrtPrice |->
        IF /\ initialPrice # Undefined
           /\ initialPrice # Zero
           /\ Ge(initialPrice, minPrice)
           /\ Le(initialPrice, maxPrice)
        THEN Sqrt(initialPrice) ELSE Sqrt(minPrice),
     initialPriceSet |-> TRUE]

PoolGetCurrentPrice(pool) == Times(pool.currentSqrtPrice, pool.currentSqrtPrice)

PoolAddLiquidityStatus(pool, balances, owner, baseAmount, pa, pb) ==
    IF pool.isSettlementPhase THEN "SettlementPhaseViolation"
    ELSE IF Le(baseAmount, Zero) THEN "NonPositiveAmount"
    ELSE IF Lt(balanceOf(balances[pool.baseToken], owner),
               Times(baseAmount, Rat(2)))
         THEN "InsufficientBalance"
    ELSE IF InvalidRange(pa, pb) THEN "InvalidRange"
    ELSE "ok"

PoolAddLiquidity(pool, balances, supply, owner, baseAmount, pa, pb) ==
    LET status == PoolAddLiquidityStatus(pool, balances, owner, baseAmount, pa, pb)
        preTokenAmount == calculatePreTokenAmount(baseAmount, pa, pb)
        liquidityAmount == calculateLiquidity(baseAmount, pa, pb)
        positionId == pool.nextPositionId
        positionsAfter == Append(pool.lpPositions,
                                 NewPosition(positionId, owner, baseAmount, pa, pb))
        setsPrice == ~pool.initialPriceSet /\ Len(positionsAfter) = 1
    IN  IF status # "ok" THEN Outcome(status, pool, balances, supply, Zero)
        ELSE Outcome("ok",
                 [pool EXCEPT
                     !.baseReserve = Plus(@, baseAmount),
                     !.preTokenReserve = Plus(@, preTokenAmount),
                     !.liquidity = Plus(@, liquidityAmount),
                     !.nextPositionId = @ + 1,
                     !.lpPositions = positionsAfter,
                     !.currentSqrtPrice = IF setsPrice THEN Sqrt(pa) ELSE @,
                     !.initialPriceSet = IF setsPrice THEN TRUE ELSE @],
                 [balances EXCEPT
                     ![pool.baseToken] = transfer(@, owner, "POOL",
                                                  Times(baseAmount, Rat(2))),
                     ![pool.preToken] = mint(@, "POOL", preTokenAmount)],
                 [supply EXCEPT
                     ![pool.preToken] = mintSupply(@, preTokenAmount)],
                 Rat(positionId))

\* The price after a swap: recomputed from the reserves when both are
\* positive, kept otherwise.
PoolPriceAfterSwap(pool) ==
    IF Gt(pool.preTokenReserve, Zero) /\ Gt(pool.baseReserve, Zero)
    THEN [pool EXCEPT !.currentSqrtPrice =
             Sqrt(calculateCurrentPrice(pool.baseReserve, pool.preTokenReserve,
                                        pool.minPrice, pool.maxPrice))]
    ELSE pool

PoolSwapBaseForPreTokenStatus(pool, balances, trader, baseAmount) ==
    LET afterFee == Minus(baseAmount, Times(baseAmount, feePercentage))
        calc == calculateSwapOutputStatus(afterFee, pool.baseReserve,
                    pool.preTokenReserve, pool.minPrice, pool.maxPrice, TRUE)
    IN  IF pool.isSettlementPhase THEN "SettlementPhaseViolation"
        ELSE IF Le(baseAmount, Zero) THEN "NonPositiveAmount"
        ELSE IF Lt(balanceOf(balances[pool.baseToken], trader), baseAmount)
             THEN "InsufficientBalance"
        ELSE IF calc # "ok" THEN calc
        ELSE IF Le(calculateSwapOutput(afterFee, pool.baseReserve,
                       pool.preTokenReserve, pool.minPrice, pool.maxPrice, TRUE),
                   Zero)
             THEN "InsufficientOutput"
        ELSE "ok"

PoolSwapBaseForPreToken(pool, balances, supply, trader, baseAmount) ==
    LET status == PoolSwapBaseForPreTokenStatus(pool, balances, trader, baseAmount)
        baseAmountAfterFee == Minus(baseAmount, Times(baseAmount, feePercentage))
        outputAmount == calculateSwapOutput(baseAmountAfterFee, pool.baseReserve,
                            pool.preTokenReserve, pool.minPrice, pool.maxPrice, TRUE)
        paidIn == [balances EXCEPT ![pool.baseToken] =
                       transfer(@, trader, "POOL", baseAmount)]
        moved == [pool EXCEPT
                     !.baseReserve = Plus(@, baseAmountAfterFee),
                     !.preTokenReserve = Minus(@, outputAmount)]
        paidOut == [paidIn EXCEPT ![pool.preToken] =
                       transfer(@, "POOL", trader, outputAmount)]
    IN  IF status # "ok" THEN Outcome(status, pool, balances, supply, Zero)
        ELSE Outcome("ok", PoolPriceAfterSwap(moved), paidOut, supply, outputAmount)

PoolSwapPreTokenForBaseStatus(pool, balances, trader, preTokenAmount) ==
    LET calc == calculateSwapOutputStatus(preTokenAmount, pool.preTokenReserve,
                    pool.baseReserve, pool.minPrice, pool.maxPrice, FALSE)
    IN  IF pool.isSettlementPhase THEN "SettlementPhaseViolation"
        ELSE IF Le(preTokenAmount, Zero) THEN "NonPositiveAmount"
        ELSE IF Lt(balanceOf(balances[pool.preToken], trader), preTokenAmount)
             THEN "InsufficientBalance"
        ELSE IF calc # "ok" THEN calc
        ELSE IF Le(calculateSwapOutput(preTokenAmount, pool.preTokenReserve,
                       pool.baseReserve, pool.minPrice, pool.maxPrice, FALSE),
                   Zero)
             THEN "InsufficientOutput"
        ELSE "ok"

PoolSwapPreTokenForBase(pool, balances, supply, trader, preTokenAmount) ==
    LET status == PoolSwapPreTokenForBaseStatus(pool, balances, trader,
                                                preTokenAmount)
        outputAmount == calculateSwapOutput(preTokenAmount, pool.preTokenReserve,
                            pool.baseReserve, pool.minPrice, pool.maxPrice, FALSE)
        outputAmountAfterFee ==
            Minus(outputAmount, Times(outputAmount, feePercentage))
        paidIn == [balances EXCEPT ![pool.preToken] =
                       transfer(@, trader, "POOL", preTokenAmount)]
        moved == [pool EXCEPT
                     !.preTokenReserve = Plus(@, preTokenAmount),
                     !.baseReserve = Minus(@, outputAmount)]
        paidOut == [paidIn EXCEPT ![pool.baseToken] =
                       transfer(@, "POOL", trader, outputAmountAfterFee)]
    IN  IF status # "ok" THEN Outcome(status, pool, balances, supply, Zero)
        ELSE Outcome("ok", PoolPriceAfterSwap(moved), paidOut, supply,
                     outputAmountAfterFee)

PoolEnterSettlementPhase(pool, balances, supply, token) ==
    IF pool.isSettlementPhase
    THEN Outcome("AlreadyInSettlement", pool, balances, supply, Zero)
    ELSE Outcome("ok",
                 [pool EXCEPT !.isSettlementPhase = TRUE, !.realToken = token],
                 balances, supply, Zero)

(***************************************************************************)
(* WPreMarketAMM                                                           *)
(***************************************************************************)
\* `${baseToken.symbol}-${preToken.symbol}`, kept as the pair of symbols
PoolIdOf(baseToken, preToken) == <<baseToken, preToken>>

PoolIds == { PoolIdOf(b, p) : b \in BaseTokens, p \in PreTokens }

\* Ranges and initial prices the pools are created with.
PoolRanges == { <<Rat(1), Rat(4)>> }
PassedInitialPrices == { Undefined, Frac(9, 4) }

\* (baseAmount, pa, pb) of the deposits made through the facade.
AmmDeposits == { <<Rat(1), Rat(1), Rat(4)>>, <<Zero, Rat(1), Rat(4)>> }
AmmBuyAmounts == { Frac(500, 997) }
AmmSellAmounts == { Frac(1, 2) }
AmmRealTokens == {"X"}

AmmInit ==
    constructor(Undefined) /\ AmmStart /\ MathIdle /\ RouteIdle /\ LedgerIdle

\* this._liquidityPools.has(poolId), with the test left out
createPoolStatusOverwriting(poolId) == "ok"

\* this._liquidityPools.has(poolId)
createPoolStatus(poolId) ==
    IF poolId \in DOMAIN ammPools THEN "PoolAlreadyExists" ELSE "ok"

\* createPool has four parameters and calls the constructor with four
\* arguments: a fifth argument of its caller never reaches the pool.
ConstructorInitialPrice(initialPrice) == Undefined

\* A lookup that also refuses every pool once the facade's own flag is set.
getPoolStatusAmmWide(poolId) ==
    IF poolId \notin DOMAIN ammPools THEN "PoolNotFound"
    ELSE IF ammSettled THEN "SettlementPhaseViolation"
    ELSE "ok"

\* _liquidityPools.get(poolId), throwing when there is none
getPoolStatus(poolId) ==
    IF poolId \in DOMAIN ammPools THEN "ok" ELSE "PoolNotFound"

\* A facade call that threw before reaching a pool.
FacadeThrows(op, poolId, status) ==
    /\ ammLast' = AmmCall(op, poolId, status, Zero)
    /\ UNCHANGED <<ammPools, ammSettled, ammBalances, ammSupply, ammRequested,
                   ammSwapped, ammSwaps>>

\* A call delegated to the pool: the pool's outcome is the facade's.
Delegated(op, poolId, out) ==
    /\ ammPools' = [ammPools EXCEPT ![poolId] = out.pool]
    /\ ammBalances' = out.balances
    /\ ammSupply' = out.supply
    /\ ammLast' = AmmCall(op, poolId, out.status, out.ret)

createPool(baseToken, preToken, minPrice, maxPrice, initialPrice) ==
    LET poolId == PoolIdOf(baseToken, preToken)
        status == createPoolStatus(poolId)
        pool == LiquidityPool(baseToken, preToken, minPrice, maxPrice,
                              ConstructorInitialPrice(initialPrice))
    IN  IF status # "ok" THEN FacadeThrows("createPool", poolId, status)
        ELSE /\ ammPools' = [id \in DOMAIN ammPools \cup {poolId} |->
                                IF id = poolId THEN pool ELSE ammPools[id]]
             /\ ammRequested' = [id \in DOMAIN ammPools \cup {poolId} |->
                                IF id = poolId THEN initialPrice
                                ELSE ammRequested[id]]
             /\ ammSwapped' = ammSwapped \ {poolId}
             /\ ammLast' = AmmCall("createPool", poolId, "ok", Zero)
             /\ UNCHANGED <<ammSettled, ammBalances, ammSupply, ammSwaps>>

AmmAddLiquidity(poolId, lpProvider, baseAmount, minPrice, maxPrice) ==
    IF getPoolStatus(poolId) # "ok"
    THEN FacadeThrows("addLiquidity", poolId, getPoolStatus(poolId))
    ELSE LET out == PoolAddLiquidity(ammPools[poolId], ammBalances, ammSupply,
                        lpProvider, baseAmount, minPrice, maxPrice)
         IN  /\ out.status = "ok" =>
                    Len(ammPools[poolId].lpPositions) < MaxPositions
             /\ Delegated("addLiquidity", poolId, out)
             /\ UNCHANGED <<ammSettled, ammRequested, ammSwapped, ammSwaps>>

\* A swap delegated to the pool; executed swaps are counted.
DelegatedSwap(op, poolId, out) ==
    /\ out.status = "ok" => ammSwaps < MaxSwaps
    /\ Delegated(op, poolId, out)
    /\ ammSwaps' = IF out.status = "ok" THEN ammSwaps + 1 ELSE ammSwaps
    /\ ammSwapped' = IF out.status = "ok" THEN ammSwapped \cup {poolId}
                     ELSE ammSwapped
    /\ UNCHANGED <<ammSettled, ammRequested>>

AmmSwapBaseForPreToken(poolId, trader, baseAmount) ==
    IF getPoolStatus(poolId) # "ok"
    THEN FacadeThrows("swapBaseForPreToken", poolId, getPoolStatus(poolId))
    ELSE DelegatedSwap("swapBaseForPreToken", poolId,
             PoolSwapBaseForPreToken(ammPools[poolId], ammBalances, ammSupply,
                                     trader, baseAmount))

AmmSwapPreTokenForBase(poolId, trader, preTokenAmount) ==
    IF getPoolStatus(poolId) # "ok"
    THEN FacadeThrows("swapPreTokenForBase", poolId, getPoolStatus(poolId))
    ELSE DelegatedSwap("swapPreTokenForBase", poolId,
             PoolSwapPreTokenForBase(ammPools[poolId], ammBalances, ammSupply,
                                     trader, preTokenAmount))

getPrice(poolId) ==
    IF getPoolStatus(poolId) # "ok"
    THEN FacadeThrows("getPrice", poolId, getPoolStatus(poolId))
    ELSE /\ ammLast' = AmmCall("getPrice", poolId, "ok",
                               PoolGetCurrentPrice(ammPools[poolId]))
         /\ UNCHANGED <<ammPools, ammSettled, ammBalances, ammSupply,
                        ammRequested, ammSwapped, ammSwaps>>

\* The facade's own flag is set only after the pool's call returned.
AmmEnterSettlementPhase(poolId, token) ==
    IF getPoolStatus(poolId) # "ok"
    THEN FacadeThrows("enterSettlementPhase", poolId, getPoolStatus(poolId))
    ELSE LET out == PoolEnterSettlementPhase(ammPools[poolId], ammBalances,
                                             ammSupply, token)
         IN  /\ Delegated("enterSettlementPhase", poolId, out)
             /\ ammSettled' = IF out.status = "ok" THEN TRUE ELSE ammSettled
             /\ UNCHANGED <<ammRequested, ammSwapped, ammSwaps>>

AmmNext ==
    \/ \E b \in BaseTokens, p \in PreTokens, r \in PoolRanges,
          ip \in PassedInitialPrices :
          createPool(b, p, r[1], r[2], ip) /\ UNCHANGED outsideAmm
    \/ \E id \in PoolIds, owner \in Owners, d \in AmmDeposits :
          AmmAddLiquidity(id, owner, d[1], d[2], d[3]) /\ UNCHANGED outsideAmm
    \/ \E id \in PoolIds, trader \in Traders, a \in AmmBuyAmounts :
          AmmSwapBaseForPreToken(id, trader, a) /\ UNCHANGED outsideAmm
    \/ \E id \in PoolIds, trader \in Traders, a \in AmmSellAmounts :
          AmmSwapPreTokenForBase(id, trader, a) /\ UNCHANGED outsideAmm
    \/ \E id \in PoolIds : getPrice(id) /\ UNCHANGED outsideAmm
    \/ \E id \in PoolIds, token \in AmmRealTokens :
          AmmEnterSettlementPhase(id, token) /\ UNCHANGED outsideAmm

SpecAMM == AmmInit /\ [][AmmNext]_allVars


(***************************************************************************)
(* PriceCalculator called directly: the arguments are drawn at the start    *)
(* and each method is applied to them.                                      *)
(***************************************************************************)
\* Amounts and price bounds, valid and invalid; the bounds are perfect squares
\* or not positive.
MathAmounts == { Zero, Rat(1), Rat(3), Frac(1, 2) }
MathPrices == { Rat(-1), Zero, Rat(1), Rat(4), Rat(9) }

\* The check that opens calculateLiquidity, calculatePreTokenAmount and
\* calculateBaseAmount.
RangeStatus(pa, pb) == IF InvalidRange(pa, pb) THEN "InvalidRange" ELSE "ok"

\* calculateCurrentPrice returns before any check when a reserve is zero; it
\* validates the range only through calculateLiquidity.
calculateCurrentPriceStatus(base, pre, pa, pb) ==
    IF pre = Zero \/ base = Zero THEN "ok" ELSE RangeStatus(pa, pb)

\* The call with its outcome; a call that threw has no value.
MathCall(op, status, value) ==
    [math EXCEPT !.op = op, !.status = status,
                 !.value = IF status = "ok" THEN value ELSE Zero]

MathInit ==
    /\ constructor(Undefined) /\ AmmStart /\ RouteIdle /\ LedgerIdle
    /\ math \in [op : {"none"}, status : {"none"}, value : {Zero},
                 x : MathAmounts, y : MathAmounts,
                 pa : MathPrices, pb : MathPrices]

CallCalculateLiquidity ==
    math' = MathCall("calculateLiquidity", RangeStatus(math.pa, math.pb),
                     calculateLiquidity(math.x, math.pa, math.pb))

CallCalculatePreTokenAmount ==
    math' = MathCall("calculatePreTokenAmount", RangeStatus(math.pa, math.pb),
                     calculatePreTokenAmount(math.x, math.pa, math.pb))

CallCalculateBaseAmount ==
    math' = MathCall("calculateBaseAmount", RangeStatus(math.pa, math.pb),
                     calculateBaseAmount(math.y, math.pa, math.pb))

CallCalculateCurrentPrice ==
    math' = MathCall("calculateCurrentPrice",
                     calculateCurrentPriceStatus(math.x, math.y, math.pa, math.pb),
                     calculateCurrentPrice(math.x, math.y, math.pa, math.pb))

MathNext ==
    \/ CallCalculateLiquidity /\ UNCHANGED outsideMath
    \/ CallCalculatePreTokenAmount /\ UNCHANGED outsideMath
    \/ CallCalculateBaseAmount /\ UNCHANGED outsideMath
    \/ CallCalculateCurrentPrice /\ UNCHANGED outsideMath

SpecMath == MathInit /\ [][MathNext]_allVars

(***************************************************************************)
(* The routing loops of the swaps, one iteration at a time.  The loop is    *)
(* entered with the sorted positions, the start index, the amount to route  *)
(* and the sqrt price; `route` holds its locals.                            *)
(***************************************************************************)
\* An index that is not moved on.
NextIndexStuck(idx) == idx

\* currentPositionIndex++
NextIndex(idx) == idx + 1

\* One pass through the body of the buy's while loop; stop is its break.
BuyIteration(positions, idx, remainingBaseAmount, totalPreTokenOutput, newSqrtPrice) ==
    LET position == positions[idx]
        lowerSqrtPrice == Sqrt(position.lowerPriceBound)
        upperSqrtPrice == Sqrt(position.upperPriceBound)
        startSqrtPrice == IF Lt(newSqrtPrice, lowerSqrtPrice)
                          THEN lowerSqrtPrice ELSE newSqrtPrice
        maxNewSqrtPrice ==
            Plus(startSqrtPrice, Divide(remainingBaseAmount, position.liquidity))
        effectiveNewSqrtPrice == MathMin(maxNewSqrtPrice, upperSqrtPrice)
        baseAmountUsed ==
            Times(position.liquidity, Minus(effectiveNewSqrtPrice, startSqrtPrice))
        preTokenReceived ==
            Times(position.liquidity,
                  Minus(Divide(One, startSqrtPrice),
                        Divide(One, effectiveNewSqrtPrice)))
    IN  [remaining |-> Minus(remainingBaseAmount, baseAmountUsed),
         total |-> Plus(totalPreTokenOutput, preTokenReceived),
         newSqrtPrice |-> effectiveNewSqrtPrice,
         stop |-> Lt(effectiveNewSqrtPrice, upperSqrtPrice)]

\* One pass through the body of the sell's while loop.
SellIteration(positions, idx, remainingPreTokenAmount, totalBaseTokenOutput, newSqrtPrice) ==
    LET position == positions[idx]
        lowerSqrtPrice == Sqrt(position.lowerPriceBound)
        upperSqrtPrice == Sqrt(position.upperPriceBound)
        startSqrtPrice == IF Gt(newSqrtPrice, upperSqrtPrice)
                          THEN upperSqrtPrice ELSE newSqrtPrice
        divisor == Plus(Divide(remainingPreTokenAmount, position.liquidity),
                        Divide(One, startSqrtPrice))
        minNewSqrtPrice == IF Gt(divisor, Zero) THEN Divide(One, divisor) ELSE Zero
        effectiveNewSqrtPrice == MathMax(minNewSqrtPrice, lowerSqrtPrice)
        preTokenUsed ==
            Times(position.liquidity,
                  Minus(Divide(One, startSqrtPrice),
                        Divide(One, effectiveNewSqrtPrice)))
        baseTokenReceived ==
            Times(position.liquidity, Minus(startSqrtPrice, effectiveNewSqrtPrice))
    IN  [remaining |-> Minus(remainingPreTokenAmount, preTokenUsed),
         total |-> Plus(totalBaseTokenOutput, baseTokenReceived),
         newSqrtPrice |-> effectiveNewSqrtPrice,
         stop |-> Gt(effectiveNewSqrtPrice, lowerSqrtPrice)]

\* The pools the loop is entered with: up to MaxPositions valid deposits, in
\* insertion order, a sqrt price and an amount to route.
RoutePositions ==
    LET valid == {d \in Deposits : Gt(d[1], Zero) /\ ~InvalidRange(d[2], d[3])}
    IN  UNION { { [i \in 1..n |-> NewPosition(i, "LP1", f[i][1], f[i][2], f[i][3])] :
                  f \in [1..n -> valid] } : n \in 1..MaxPositions }
RouteSqrtPrices == { Rat(1), Frac(3, 2), Rat(2), Rat(3), Rat(4) }
RouteBuyAmounts == { Rat(2), Rat(14) }
RouteSellAmounts == { Rat(1), Frac(4, 3) }

\* The locals at loop entry.
RouteEntry(side, stored, sqrtPrice, amount) ==
    LET positions == IF side = "buy" THEN SortByLowerAsc(stored)
                     ELSE SortByUpperDesc(stored)
        price == Times(sqrtPrice, sqrtPrice)
        start == IF side = "buy" THEN BuyStartIndex(positions, price)
                 ELSE SellStartIndex(positions, price)
    IN  [phase |-> "loop", side |-> side, positions |-> positions,
         start |-> start, amount |-> amount, sqrtPrice |-> sqrtPrice,
         idx |-> start, remaining |-> amount, total |-> Zero,
         newSqrtPrice |-> sqrtPrice, iterations |-> 0]

\* The swap reaches its loop only when a start position was found.
RouteInit ==
    /\ constructor(Undefined) /\ AmmStart /\ MathIdle /\ LedgerIdle
    /\ \E stored \in RoutePositions, sqrtPrice \in RouteSqrtPrices :
          \/ \E amount \in RouteBuyAmounts :
                route = RouteEntry("buy", stored, sqrtPrice, amount)
          \/ \E amount \in RouteSellAmounts :
                route = RouteEntry("sell", stored, sqrtPrice, amount)
    /\ route.start # 0

\* remaining > 0 && currentPositionIndex < positions.length
LoopCondition == Gt(route.remaining, Zero) /\ route.idx <= Len(route.positions)

\* The locals after one pass: the loop is left by the break, else the index
\* moves on.
AfterIteration(r) ==
    [route EXCEPT !.remaining = r.remaining, !.total = r.total,
                  !.newSqrtPrice = r.newSqrtPrice,
                  !.iterations = @ + 1,
                  !.idx = IF r.stop THEN @ ELSE NextIndex(@),
                  !.phase = IF r.stop THEN "done" ELSE "loop"]

RouteBuyIteration ==
    /\ route.phase = "loop" /\ route.side = "buy" /\ LoopCondition
    /\ route.iterations <= MaxPositions
    /\ route' = AfterIteration(BuyIteration(route.positions, route.idx,
                     route.remaining, route.total, route.newSqrtPrice))

RouteSellIteration ==
    /\ route.phase = "loop" /\ route.side = "sell" /\ LoopCondition
    /\ route.iterations <= MaxPositions
    /\ route' = AfterIteration(SellIteration(route.positions, route.idx,
                     route.remaining, route.total, route.newSqrtPrice))

\* The loop condition fails: the swap goes on to its refund and transfers.
RouteExit ==
    /\ route.phase = "loop" /\ ~LoopCondition
    /\ route' = [route EXCEPT !.phase = "done"]

RouteNext ==
    \/ RouteBuyIteration /\ UNCHANGED outsideRoute
    \/ RouteSellIteration /\ UNCHANGED outsideRoute
    \/ RouteExit /\ UNCHANGED outsideRoute

\* A pass through either loop body.
RouteIteration ==
    (RouteBuyIteration \/ RouteSellIteration) /\ UNCHANGED outsideRoute

\* The states in which a pass is enabled: every pass adds one to iterations,
\* so wherever its guard holds the pass is a step that changes the state.
IterationEnabled ==
    route.phase = "loop" /\ LoopCondition /\ route.iterations <= MaxPositions

\* A call that has entered its loop keeps running: the loop is synchronous
\* code and nothing else can stop it.  Weak fairness of the exit, and weak
\* fairness of the pass with its enabling condition written out.
SpecRoute ==
    /\ RouteInit /\ [][RouteNext]_allVars
    /\ WF_allVars(RouteExit /\ UNCHANGED outsideRoute)
    /\ (<>[]IterationEnabled => []<><<RouteIteration>>_allVars)

(***************************************************************************)
(* Token on its own: mint, burn and transfer called directly.              *)
(***************************************************************************)
LedgerAmounts == { Rat(-1), Zero, Frac(1, 2), Rat(1), Rat(2) }

\* The record of a Token call with the ledger it leaves.
LedgerCall(op, ok, from, to, amount, balances, totalSupply) ==
    [op |-> op, ok |-> ok, from |-> from, to |-> to, amount |-> amount,
     balances |-> balances, totalSupply |-> totalSupply]

\* new Token(name, symbol): no balance, no supply
LedgerInit ==
    /\ constructor(Undefined) /\ AmmStart /\ MathIdle /\ RouteIdle
    /\ ledger = LedgerCall("constructor", TRUE, "none", "none", Zero,
                           [a \in Accounts |-> Zero], Zero)

CallMint(to, amount) ==
    /\ mintOk(amount) => Le(Plus(ledger.totalSupply, amount), Rat(MaxSupply))
    /\ ledger' = LedgerCall("mint", mintOk(amount), "none", to, amount,
                            mint(ledger.balances, to, amount),
                            mintSupply(ledger.totalSupply, amount))

CallBurn(from, amount) ==
    ledger' = LedgerCall("burn", burnOk(ledger.balances, from, amount),
                         from, "none", amount,
                         burn(ledger.balances, from, amount),
                         burnSupply(ledger.balances, ledger.totalSupply,
                                    from, amount))

CallTransfer(from, to, amount) ==
    ledger' = LedgerCall("transfer", transferOk(ledger.balances, from, amount),
                         from, to, amount,
                         transfer(ledger.balances, from, to, amount),
                         ledger.totalSupply)

LedgerNext ==
    \/ \E to \in Accounts, amount \in LedgerAmounts :
          CallMint(to, amount) /\ UNCHANGED outsideLedger
    \/ \E from \in Accounts, amount \in LedgerAmounts :
          CallBurn(from, amount) /\ UNCHANGED outsideLedger
    \/ \E from \in Accounts, to \in Accounts, amount \in LedgerAmounts :
          CallTransfer(from, to, amount) /\ UNCHANGED outsideLedger

SpecToken == LedgerInit /\ [][LedgerNext]_allVars

(***************************************************************************)
(* Properties                                                              *)
(***************************************************************************)
SwapOps == {"swapBaseForPreToken", "swapPreTokenForBase"}
PhasedOps == SwapOps \cup {"addLiquidity"}

\* The step is a call of op that returned normally / that threw.
Succeeded(op) == last'.op = op /\ last'.status = "ok"
Failed(op) == last'.op = op /\ last'.status # "ok"

\* C1 (phase guard): once the pool is in settlement phase it stays there, and
\* every later addLiquidity, swapBaseForPreToken or swapPreTokenForBase call
\* fails with the settlement-phase error, whatever its arguments.
C1_PhaseGuard ==
    [][isSettlementPhase =>
          /\ isSettlementPhase'
          /\ (last'.op \in PhasedOps => last'.status = "SettlementPhaseViolation")]_vars

\* A settled pool that traded before, refusing a buy the trader could pay for.
C1_Witness ==
    /\ isSettlementPhase
    /\ swaps > 0
    /\ lpPositions # <<>>
    /\ last.op = "swapBaseForPreToken"
    /\ last.status = "SettlementPhaseViolation"
    /\ Gt(last.amount, Zero)
    /\ Ge(balanceOf(baseBalances, last.account), last.amount)

\* C2 (one-way transition): enterSettlementPhase succeeds exactly from the
\* trading phase and then sets the phase and the real token; a call in
\* settlement phase fails with AlreadyInSettlement; no step of any operation
\* changes the phase or the real token of a settled pool, and only
\* enterSettlementPhase settles a pool.
C2_OneWayTransition ==
    [][/\ isSettlementPhase => (isSettlementPhase' /\ realToken' = realToken)
       /\ last'.op = "enterSettlementPhase" =>
             IF isSettlementPhase
             THEN last'.status = "AlreadyInSettlement"
             ELSE /\ last'.status = "ok"
                  /\ isSettlementPhase'
                  /\ realToken' = last'.account
       /\ (~isSettlementPhase /\ isSettlementPhase') =>
             last'.op = "enterSettlementPhase"]_vars

\* A second enterSettlementPhase, with another token, was refused and the
\* first token is still the pool's real token.
C2_Witness ==
    /\ isSettlementPhase
    /\ last.op = "enterSettlementPhase"
    /\ last.status = "AlreadyInSettlement"
    /\ last.account # realToken
    /\ realToken \in RealTokens

\* C3 (swap failure atomicity): every failing swapBaseForPreToken or
\* swapPreTokenForBase call leaves the pool's state and both ledgers as they
\* were before the call.
C3_SwapFailureAtomic ==
    [][(last'.op \in SwapOps /\ last'.status # "ok") =>
          UNCHANGED <<poolVars, ledgerVars>>]_vars

\* C4 (addLiquidity failure atomicity): a call in settlement phase, with
\* baseAmount <= 0, with an owner balance below 2 * baseAmount or with an
\* invalid range fails, and every failing addLiquidity call leaves the
\* reserves, the liquidity, the positions, the next position id, the price,
\* the pre-token supply and every balance unchanged.
C4_AddLiquidityFailureAtomic ==
    [][/\ Failed("addLiquidity") => UNCHANGED <<poolVars, ledgerVars>>
       /\ (/\ last'.op = "addLiquidity"
           /\ \/ isSettlementPhase
              \/ Le(last'.amount, Zero)
              \/ Lt(balanceOf(baseBalances, last'.account),
                    Times(last'.amount, Rat(2)))
              \/ InvalidRange(last'.pa, last'.pb))
          => last'.status # "ok"]_vars

\* An addLiquidity call refused for its range alone, by an owner who could
\* pay, on a pool that already holds a position.
C4_Witness ==
    /\ last.op = "addLiquidity"
    /\ last.status = "InvalidRange"
    /\ lpPositions # <<>>
    /\ Ge(balanceOf(baseBalances, last.account), Times(last.amount, Rat(2)))

\* C5 (monotonic price on buy): after every successful swapBaseForPreToken
\* call currentSqrtPrice is greater than or equal to its value before the call.
C5_BuyPriceMonotonic ==
    [][Succeeded("swapBaseForPreToken") =>
          Ge(currentSqrtPrice', currentSqrtPrice)]_vars

\* C6 (monotonic price on sell): after every successful swapPreTokenForBase
\* call currentSqrtPrice is less than or equal to its value before the call.
C6_SellPriceMonotonic ==
    [][Succeeded("swapPreTokenForBase") =>
          Le(currentSqrtPrice', currentSqrtPrice)]_vars

\* C7 (price in range): in every reachable state of a pool in trading phase
\* with at least one position, the current price lies inside
\* [lowerPriceBound, upperPriceBound] of at least one stored position.
C7_PriceInRange ==
    (~isSettlementPhase /\ lpPositions # <<>>) =>
        \E i \in 1..Len(lpPositions) : Contains(lpPositions[i], getCurrentPrice)

\* C8 (reserves non-negative): in every reachable state baseReserve >= 0 and
\* preTokenReserve >= 0.
C8_ReservesNonNegative ==
    Ge(baseReserve, Zero) /\ Ge(preTokenReserve, Zero)

\* Swap conservation of a successful buy: the trader's base balance falls by
\* what POOL's base balance rises, baseReserve rises by that amount minus the
\* fee, and the trader's pre-token gain equals the fall of preTokenReserve and
\* of POOL's pre-token balance.
BuyConserves ==
    Succeeded("swapBaseForPreToken") =>
        LET trader == last'.account
            fee == Times(last'.amount, feePercentage)
            traderBaseFall == Minus(baseBalances[trader], baseBalances'[trader])
            traderPreGain == Minus(preBalances'[trader], preBalances[trader])
        IN  /\ traderBaseFall = Minus(baseBalances'["POOL"], baseBalances["POOL"])
            /\ Minus(baseReserve', baseReserve) = Minus(traderBaseFall, fee)
            /\ traderPreGain = Minus(preTokenReserve, preTokenReserve')
            /\ traderPreGain = Minus(preBalances["POOL"], preBalances'["POOL"])

\* Swap conservation of a successful sell: the trader's pre-token loss equals
\* the rise of preTokenReserve and of POOL's pre-token balance, baseReserve
\* falls by totalBaseOut and the trader's base gain is totalBaseOut minus the
\* fee (the value the call returns).
SellConserves ==
    Succeeded("swapPreTokenForBase") =>
        LET trader == last'.account
            totalBaseOut == Divide(last'.ret, Minus(One, feePercentage))
            traderPreLoss == Minus(preBalances[trader], preBalances'[trader])
        IN  /\ traderPreLoss = Minus(preTokenReserve', preTokenReserve)
            /\ traderPreLoss = Minus(preBalances'["POOL"], preBalances["POOL"])
            /\ Minus(baseReserve, baseReserve') = totalBaseOut
            /\ Minus(baseBalances'[trader], baseBalances[trader]) = last'.ret

\* C9 (swap conservation): after any successful swap no value is leaked or
\* manufactured beyond the fee: a buy satisfies BuyConserves and a sell
\* satisfies SellConserves.
C9_SwapConservation == [][BuyConserves /\ SellConserves]_vars

\* C10 (addLiquidity effect): a successful addLiquidity(owner, x, pa, pb)
\* raises baseReserve by x and preTokenReserve by the pre-token amount of
\* (x, pa, pb), moves 2 * x base tokens from the owner to POOL, mints the
\* pre-token amount to POOL, appends exactly one position with that owner,
\* those bounds, liquidity(x, pa, pb), collateralAmount = x and
\* initialPreTokenAmount = the pre-token amount, and returns its id.
C10_AddLiquidityEffect ==
    [][Succeeded("addLiquidity") =>
          LET owner == last'.account
              x == last'.amount
              pa == last'.pa
              pb == last'.pb
              y == calculatePreTokenAmount(x, pa, pb)
              n == Len(lpPositions)
          IN  /\ baseReserve' = Plus(baseReserve, x)
              /\ preTokenReserve' = Plus(preTokenReserve, y)
              /\ baseBalances' =
                    [baseBalances EXCEPT ![owner] = Minus(@, Times(x, Rat(2))),
                                         !["POOL"] = Plus(@, Times(x, Rat(2)))]
              /\ preBalances' = [preBalances EXCEPT !["POOL"] = Plus(@, y)]
              /\ preTotalSupply' = Plus(preTotalSupply, y)
              /\ Len(lpPositions') = n + 1
              /\ SubSeq(lpPositions', 1, n) = lpPositions
              /\ lpPositions'[n + 1] =
                    [id |-> nextPositionId, owner |-> owner,
                     liquidity |-> calculateLiquidity(x, pa, pb),
                     lowerPriceBound |-> pa, upperPriceBound |-> pb,
                     collateralAmount |-> x, initialPreTokenAmount |-> y]
              /\ \A i \in 1..n : lpPositions[i].id # nextPositionId
              /\ last'.ret = Rat(nextPositionId)]_vars

\* A second deposit, on a pool that has traded, whose 2 * x leaves the owner
\* with less than before and whose position is stored behind the first.
C10_Witness ==
    /\ last.op = "addLiquidity"
    /\ last.status = "ok"
    /\ Len(lpPositions) = 2
    /\ swaps > 0
    /\ lpPositions[2].id = 2
    /\ last.ret = Rat(2)
    /\ lpPositions[2].collateralAmount = last.amount
    /\ Gt(balanceOf(preBalances, "POOL"), Zero)

\* C11 (addLiquidity does not move the price): a successful addLiquidity
\* leaves currentSqrtPrice unchanged, except when it stores the pool's first
\* position and no initial price was given at construction; then
\* currentSqrtPrice becomes the square root of that position's lower bound.
C11_AddLiquidityKeepsPrice ==
    [][Succeeded("addLiquidity") =>
          IF ~initialPriceSet /\ lpPositions = <<>>
          THEN currentSqrtPrice' = Sqrt(last'.pa)
          ELSE currentSqrtPrice' = currentSqrtPrice]_vars

\* Two deposits and no swap on a pool still at sqrt price 3, which is no
\* position's lower bound: the price is the constructor's.
C11_Witness ==
    /\ last.op = "addLiquidity"
    /\ last.status = "ok"
    /\ Len(lpPositions) = 2
    /\ swaps = 0
    /\ currentSqrtPrice = Rat(3)
    /\ \A i \in 1..Len(lpPositions) : lpPositions[i].lowerPriceBound # Rat(9)

\* C12 (collateral precondition): in trading phase and with baseAmount > 0,
\* addLiquidity fails with InsufficientBalance exactly when the owner's base
\* balance is below 2 * baseAmount, whatever the range; an owner holding only
\* baseAmount does not pass.
C12_CollateralPrecondition ==
    [][(/\ last'.op = "addLiquidity"
        /\ ~isSettlementPhase
        /\ Gt(last'.amount, Zero))
       => (last'.status = "InsufficientBalance"
             <=> Lt(balanceOf(baseBalances, last'.account),
                    Times(last'.amount, Rat(2))))]_vars

\* A deposit refused for the balance by an owner who holds exactly baseAmount.
C12_Witness ==
    /\ last.op = "addLiquidity"
    /\ last.status = "InsufficientBalance"
    /\ ~isSettlementPhase
    /\ balanceOf(baseBalances, last.account) = last.amount
    /\ ~InvalidRange(last.pa, last.pb)

\* C13 (NoLiquidityAvailable on buy): in trading phase, with a positive amount
\* the trader can pay, swapBaseForPreToken fails with NoLiquidityAvailable
\* exactly when no stored position's range contains the current price and no
\* stored position has a lower bound above it.
C13_BuyNoLiquidityIff ==
    [][(/\ last'.op = "swapBaseForPreToken"
        /\ ~isSettlementPhase
        /\ Gt(last'.amount, Zero)
        /\ Ge(balanceOf(baseBalances, last'.account), last'.amount))
       => (last'.status = "NoLiquidityAvailable"
             <=> \A i \in 1..Len(lpPositions) :
                    /\ ~Contains(lpPositions[i], getCurrentPrice)
                    /\ ~Gt(lpPositions[i].lowerPriceBound, getCurrentPrice))]_vars

\* A buy refused on a pool whose positions all end below the current price.
C13_Witness ==
    /\ last.op = "swapBaseForPreToken"
    /\ last.status = "NoLiquidityAvailable"
    /\ lpPositions # <<>>
    /\ \A i \in 1..Len(lpPositions) :
          Lt(lpPositions[i].upperPriceBound, getCurrentPrice)

\* C14 (refund of unused input on buy): every successful buy ends with
\* 0 <= remaining <= baseAmount - fee; when remaining > 0 exactly remaining
\* base tokens go back from POOL to the trader; baseReserve does not decrease.
C14_BuyRefundBounded ==
    [][Succeeded("swapBaseForPreToken") =>
          LET trader == last'.account
              baseAmount == last'.amount
              remaining == last'.remaining
              baseAmountAfterFee == Minus(baseAmount, Times(baseAmount, feePercentage))
              refund == IF Gt(remaining, Zero) THEN remaining ELSE Zero
          IN  /\ Ge(remaining, Zero)
              /\ Le(remaining, baseAmountAfterFee)
              /\ baseBalances'[trader] =
                    Plus(Minus(baseBalances[trader], baseAmount), refund)
              /\ baseBalances'["POOL"] =
                    Minus(Plus(baseBalances["POOL"], baseAmount), refund)
              /\ Ge(baseReserve', baseReserve)]_vars

\* The fee of a successful buy: baseAmount - fee is what is routed (baseReserve
\* rises by it less the remainder) and POOL keeps the fee on top of that.
BuyFeeUpfront ==
    Succeeded("swapBaseForPreToken") =>
        LET fee == Times(last'.amount, feePercentage)
            reserveRise == Minus(baseReserve', baseReserve)
        IN  /\ reserveRise = Minus(Minus(last'.amount, fee), last'.remaining)
            /\ Minus(baseBalances'["POOL"], baseBalances["POOL"]) =
                  Plus(reserveRise, fee)

\* The fee of a successful sell: the whole input is routed, baseReserve falls
\* by totalBaseOut, and the call returns and pays totalBaseOut less the fee.
SellFeeOnOutput ==
    Succeeded("swapPreTokenForBase") =>
        LET trader == last'.account
            totalBaseOut == Minus(baseReserve, baseReserve')
            fee == Times(totalBaseOut, feePercentage)
        IN  /\ Minus(preTokenReserve', preTokenReserve) =
                  Minus(last'.amount, last'.remaining)
            /\ last'.ret = Minus(totalBaseOut, fee)
            /\ Minus(baseBalances'[trader], baseBalances[trader]) = last'.ret
            /\ Minus(baseBalances["POOL"], baseBalances'["POOL"]) = last'.ret

\* C15 (fee asymmetry): a buy takes the fee baseAmount * 0.003 from the input
\* before routing and POOL keeps it; a sell takes the fee totalBaseOut * 0.003
\* from the output, returns and pays totalBaseOut - fee, and baseReserve falls
\* by the full totalBaseOut.
C15_FeeAsymmetry == [][BuyFeeUpfront /\ SellFeeOnOutput]_vars

\* C16 (realToken is set exactly in settlement phase): in every reachable
\* state realToken is non-null if and only if isSettlementPhase holds; the
\* successful enterSettlementPhase call stores the token it was passed, and no
\* later step changes it.
C16_RealTokenIffSettled ==
    /\ []((realToken # "null") <=> isSettlementPhase)
    /\ [][/\ Succeeded("enterSettlementPhase") => realToken' = last'.account
          /\ realToken # "null" => realToken' = realToken]_vars

\* A settled pool holding token "Y" after a later call of another operation.
C16_Witness ==
    /\ isSettlementPhase
    /\ realToken = "Y"
    /\ last.op = "addLiquidity"
    /\ lpPositions # <<>>
\* C17: a pool created through the facade with an initial price inside its
\* range reports that price from creation until its first swap, whatever
\* liquidity is added in between.
C17_InitialPriceThroughFacade ==
    \A id \in DOMAIN ammPools :
        LET pool == ammPools[id]
            initialPrice == ammRequested[id]
        IN  ( /\ initialPrice # Undefined
              /\ Le(pool.minPrice, initialPrice)
              /\ Le(initialPrice, pool.maxPrice)
              /\ id \notin ammSwapped )
            => PoolGetCurrentPrice(pool) = initialPrice

\* The facade methods that look the pool up with getPool.
LookupOps == PhasedOps \cup {"getPrice", "enterSettlementPhase"}

\* C18: createPool fails with PoolAlreadyExists exactly for a pair that already
\* has a pool, and then changes neither the registry nor the existing pool; the
\* other facade calls fail with PoolNotFound exactly for an unknown pool id, and
\* then change no pool and no ledger balance.
C18_PoolRegistryErrors ==
    [][/\ ammLast'.op = "createPool" =>
             /\ (ammLast'.status = "PoolAlreadyExists")
                    <=> (ammLast'.poolId \in DOMAIN ammPools)
             /\ ammLast'.status = "PoolAlreadyExists" =>
                    /\ ammPools' = ammPools
                    /\ ammBalances' = ammBalances
       /\ ammLast'.op \in LookupOps =>
             /\ (ammLast'.status = "PoolNotFound")
                    <=> (ammLast'.poolId \notin DOMAIN ammPools)
             /\ ammLast'.status = "PoolNotFound" =>
                    /\ ammPools' = ammPools
                    /\ ammBalances' = ammBalances
                    /\ ammSupply' = ammSupply]_allVars

\* A second createPool for a pair whose pool already holds liquidity was
\* refused while the other pair is still unknown.
C18_Witness ==
    /\ ammLast.op = "createPool"
    /\ ammLast.status = "PoolAlreadyExists"
    /\ ammPools[ammLast.poolId].lpPositions # <<>>
    /\ DOMAIN ammPools # PoolIds

\* C19: a call on one pool leaves every other pool of the facade as it was,
\* and addLiquidity and the swaps of a pool are refused for the settlement
\* phase only when that pool itself has entered it.
C19_CrossPoolIndependence ==
    [][/\ \A b \in DOMAIN ammPools :
             b # ammLast'.poolId => ammPools'[b] = ammPools[b]
       /\ ( /\ ammLast'.op \in PhasedOps
            /\ ammLast'.status = "SettlementPhaseViolation" )
          => ammPools[ammLast'.poolId].isSettlementPhase]_allVars

\* One pool is in settlement and a swap on the other pool has just succeeded.
C19_Witness ==
    /\ ammLast.op \in SwapOps
    /\ ammLast.status = "ok"
    /\ ~ammPools[ammLast.poolId].isSettlementPhase
    /\ \E a \in DOMAIN ammPools : ammPools[a].isSettlementPhase

\* C20: the "POOL" balances of a pool's base token and pre-token change only
\* in that pool's own addLiquidity and swaps: no other call, and no call on
\* another pool, changes them.
C20_PoolAccountSoleMutator ==
    [][\A b \in DOMAIN ammPools :
          (b # ammLast'.poolId \/ ammLast'.op \notin PhasedOps) =>
             /\ balanceOf(ammBalances'[ammPools[b].baseToken], "POOL")
                   = balanceOf(ammBalances[ammPools[b].baseToken], "POOL")
             /\ balanceOf(ammBalances'[ammPools[b].preToken], "POOL")
                   = balanceOf(ammBalances[ammPools[b].preToken], "POOL")]_allVars

\* C21: every PriceCalculator method throws InvalidRange whenever pa <= 0,
\* pb <= 0 or pa >= pb, calculateCurrentPrice with a zero reserve included.
C21_RangeValidation ==
    (math.op \notin {"none", "idle"} /\ InvalidRange(math.pa, math.pb))
        => math.status = "InvalidRange"

\* C22: for 0 < pa < pb and x > 0, calculateBaseAmount applied to
\* calculatePreTokenAmount(x, pa, pb) gives x back.
C22_AmountRoundTrip ==
    ( /\ math.op = "calculatePreTokenAmount"
      /\ math.status = "ok"
      /\ Gt(math.x, Zero) )
    => calculateBaseAmount(math.value, math.pa, math.pb) = math.x

\* calculatePreTokenAmount(1/2, 1, 9) has returned 3/2.
C22_Witness ==
    /\ math.op = "calculatePreTokenAmount"
    /\ math.status = "ok"
    /\ math.x = Frac(1, 2) /\ math.pa = Rat(1) /\ math.pb = Rat(9)
    /\ math.value = Frac(3, 2)

\* C23: for 0 < pa < pb and x > 0, calculatePreTokenAmount returns
\* x * sqrt(pa * pb) and calculateLiquidity returns
\* x * sqrt(pa) * sqrt(pb) / (sqrt(pb) - sqrt(pa)).
C23_ClosedForms ==
    /\ ( /\ math.op = "calculatePreTokenAmount"
         /\ math.status = "ok"
         /\ Gt(math.x, Zero) )
       => math.value = Times(math.x, Sqrt(Times(math.pa, math.pb)))
    /\ ( /\ math.op = "calculateLiquidity"
         /\ math.status = "ok"
         /\ Gt(math.x, Zero) )
       => math.value = Divide(Times(Times(math.x, Sqrt(math.pa)), Sqrt(math.pb)),
                              Minus(Sqrt(math.pb), Sqrt(math.pa)))

\* calculateLiquidity(3, 4, 9) has returned 18.
C23_Witness ==
    /\ math.op = "calculateLiquidity"
    /\ math.status = "ok"
    /\ math.x = Rat(3) /\ math.pa = Rat(4) /\ math.pb = Rat(9)
    /\ math.value = Rat(18)

\* C24: the price of a single-range pool stays within [minPrice, maxPrice]; a
\* successful buy never lowers it and a successful sell never raises it.
C24_SingleRangePriceBound ==
    /\ [](\A id \in DOMAIN ammPools :
            /\ Le(ammPools[id].minPrice, PoolGetCurrentPrice(ammPools[id]))
            /\ Le(PoolGetCurrentPrice(ammPools[id]), ammPools[id].maxPrice))
    /\ [][/\ ( ammLast'.op = "swapBaseForPreToken" /\ ammLast'.status = "ok" )
             => Ge(PoolGetCurrentPrice(ammPools'[ammLast'.poolId]),
                   PoolGetCurrentPrice(ammPools[ammLast'.poolId]))
          /\ ( ammLast'.op = "swapPreTokenForBase" /\ ammLast'.status = "ok" )
             => Le(PoolGetCurrentPrice(ammPools'[ammLast'.poolId]),
                   PoolGetCurrentPrice(ammPools[ammLast'.poolId]))]_allVars

\* C25: position ids are distinct and increase by one per successful
\* addLiquidity (LP-1, LP-2, ...); a failed addLiquidity consumes no id; a stored
\* position is never changed or removed, whatever is called afterwards.
C25_PositionIdentity ==
    /\ [](/\ \A i \in 1..Len(lpPositions) : lpPositions[i].id = i
          /\ nextPositionId = Len(lpPositions) + 1)
    /\ [][/\ SubSeq(lpPositions', 1, Len(lpPositions)) = lpPositions
          /\ Succeeded("addLiquidity") =>
                /\ Len(lpPositions') = Len(lpPositions) + 1
                /\ lpPositions'[Len(lpPositions')].id = nextPositionId
                /\ last'.ret = Rat(nextPositionId)
          /\ ~Succeeded("addLiquidity") =>
                /\ lpPositions' = lpPositions
                /\ nextPositionId' = nextPositionId]_vars

\* Two positions are stored, a swap has been executed, the pool has entered
\* settlement and a further addLiquidity has just been refused.
C25_Witness ==
    /\ Len(lpPositions) = 2
    /\ swaps >= 1
    /\ isSettlementPhase
    /\ last.op = "addLiquidity" /\ last.status # "ok"
    /\ nextPositionId = 3

\* C26: every stored position has 0 < lowerPriceBound < upperPriceBound,
\* liquidity > 0 and collateralAmount > 0; its collateralAmount is the
\* baseAmount its addLiquidity was called with and its initialPreTokenAmount is
\* the amount of pre-token minted for it.
C26_PositionWellFormed ==
    /\ [](\A i \in 1..Len(lpPositions) :
            /\ Lt(Zero, lpPositions[i].lowerPriceBound)
            /\ Lt(lpPositions[i].lowerPriceBound, lpPositions[i].upperPriceBound)
            /\ Gt(lpPositions[i].liquidity, Zero)
            /\ Gt(lpPositions[i].collateralAmount, Zero))
    /\ [][Succeeded("addLiquidity") =>
            LET position == lpPositions'[Len(lpPositions')] IN
            /\ position.owner = last'.account
            /\ position.lowerPriceBound = last'.pa
            /\ position.upperPriceBound = last'.pb
            /\ position.collateralAmount = last'.amount
            /\ position.initialPreTokenAmount
                  = Minus(preTotalSupply', preTotalSupply)
            /\ position.initialPreTokenAmount
                  = Minus(balanceOf(preBalances', "POOL"),
                          balanceOf(preBalances, "POOL"))]_vars

\* The position [9, 16] holding 1 base token has been stored second.
C26_Witness ==
    /\ Len(lpPositions) = 2
    /\ lpPositions[2].lowerPriceBound = Rat(9)
    /\ lpPositions[2].upperPriceBound = Rat(16)
    /\ lpPositions[2].collateralAmount = Rat(1)
    /\ lpPositions[2].initialPreTokenAmount = Rat(12)
    /\ last.op = "addLiquidity" /\ last.status = "ok"

\* C27: a successful buy that starts in a position containing the current
\* price and whose amount after the fee does not carry the sqrt price up to that
\* position's upper bound stays in that position: nothing is refunded, the whole
\* amount after the fee enters the reserve, the sqrt price rises by
\* amountAfterFee / L and the output is L * (1/sqrtP - 1/newSqrtP).
C27_BuyInsideOneRange ==
    [][Succeeded("swapBaseForPreToken") =>
          LET positions == SortByLowerAsc(lpPositions)
              selected == FirstIndex({i \in 1..Len(positions) :
                              Contains(positions[i], getCurrentPrice)})
              amountAfterFee ==
                  Minus(last'.amount, Times(last'.amount, feePercentage))
              L == positions[selected].liquidity
              target == Plus(currentSqrtPrice, Divide(amountAfterFee, L))
          IN  ( /\ selected # 0
                /\ Lt(target, Sqrt(positions[selected].upperPriceBound)) )
              => /\ last'.remaining = Zero
                 /\ balanceOf(baseBalances', last'.account)
                       = Minus(balanceOf(baseBalances, last'.account), last'.amount)
                 /\ baseReserve' = Plus(baseReserve, amountAfterFee)
                 /\ currentSqrtPrice' = target
                 /\ last'.ret = Times(L, Minus(Divide(One, currentSqrtPrice),
                                               Divide(One, target)))]_vars

\* A buy of 2 after the fee in the position [1, 16] (L = 4) from price 1 has
\* ended at sqrt price 3/2 with output 4/3.
C27_Witness ==
    /\ last.op = "swapBaseForPreToken" /\ last.status = "ok"
    /\ last.amount = Frac(2000, 997)
    /\ last.remaining = Zero
    /\ last.ret = Frac(4, 3)
    /\ currentSqrtPrice = Frac(3, 2)
    /\ \E i \in 1..Len(lpPositions) :
          /\ lpPositions[i].lowerPriceBound = Rat(1)
          /\ lpPositions[i].upperPriceBound = Rat(16)

\* C28: a successful buy made when no position contains the current price
\* starts at a position with the smallest lower bound above the price, as if
\* the price were that position's lower bound: the jump consumes no input and
\* produces no output, and when the amount after the fee does not exhaust that
\* position the sqrt price ends at lowerSqrtPrice + amountAfterFee / L with
\* output L * (1/lowerSqrtPrice - 1/newSqrtPrice).
C28_BuyGapJump ==
    [][Succeeded("swapBaseForPreToken") =>
          LET positions == SortByLowerAsc(lpPositions)
              price == getCurrentPrice
              above == {i \in 1..Len(positions) :
                          Gt(positions[i].lowerPriceBound, price)}
              nearest == {i \in above : \A k \in above :
                             Le(positions[i].lowerPriceBound,
                                positions[k].lowerPriceBound)}
              amountAfterFee ==
                  Minus(last'.amount, Times(last'.amount, feePercentage))
          IN  ( /\ \A i \in 1..Len(positions) : ~Contains(positions[i], price)
                /\ above # {} )
              => \E j \in nearest :
                    LET lowerSqrtPrice == Sqrt(positions[j].lowerPriceBound)
                        L == positions[j].liquidity
                        target == Plus(lowerSqrtPrice, Divide(amountAfterFee, L))
                        routed == BuyLoop(positions, j, amountAfterFee, Zero,
                                          lowerSqrtPrice)
                    IN  /\ last'.ret = routed.total
                        /\ last'.remaining = routed.remaining
                        /\ currentSqrtPrice' = routed.newSqrtPrice
                        /\ Lt(target, Sqrt(positions[j].upperPriceBound)) =>
                              /\ currentSqrtPrice' = target
                              /\ last'.remaining = Zero
                              /\ last'.ret =
                                    Times(L, Minus(Divide(One, lowerSqrtPrice),
                                                   Divide(One, target)))]_vars

\* With [4, 9] (L = 6) as the only range, a buy of 2 after the fee has ended
\* at sqrt price 7/3 with output 3/7: the amounts of a route from sqrt price 2.
C28_Witness ==
    /\ last.op = "swapBaseForPreToken" /\ last.status = "ok"
    /\ last.amount = Frac(2000, 997)
    /\ last.remaining = Zero
    /\ last.ret = Frac(3, 7)
    /\ currentSqrtPrice = Frac(7, 3)
    /\ Len(lpPositions) = 1
    /\ lpPositions[1].lowerPriceBound = Rat(4)
    /\ lpPositions[1].upperPriceBound = Rat(9)

\* C29: the routing loop of either swap makes at most one pass per position
\* from its start index on, each pass either leaves the loop or moves the index
\* on by one, and the loop is always left, with the result the swap then uses.
C29_RoutingTerminates ==
    /\ [](route.iterations <= Len(route.positions) - route.start + 1)
    /\ [][route'.iterations = route.iterations + 1 =>
             \/ route'.phase = "done" /\ route'.idx = route.idx
             \/ route'.phase = "loop" /\ route'.idx = route.idx + 1]_allVars
    /\ [](route.phase = "done" =>
            LET r == IF route.side = "buy"
                     THEN BuyLoop(route.positions, route.start, route.amount,
                                  Zero, route.sqrtPrice)
                     ELSE SellLoop(route.positions, route.start, route.amount,
                                   Zero, route.sqrtPrice)
            IN  /\ route.remaining = r.remaining
                /\ route.total = r.total
                /\ route.newSqrtPrice = r.newSqrtPrice)
    /\ <>(route.phase = "done")

\* A buy has passed through both positions of the pool and has left the loop
\* with input still unrouted.
C29_Witness ==
    /\ route.phase = "done" /\ route.side = "buy"
    /\ Len(route.positions) = 2
    /\ route.start = 1
    /\ route.iterations = 2
    /\ route.idx = 3
    /\ Gt(route.remaining, Zero)

\* The trader's base balance before the buy recorded in `last`, read in the
\* state the buy left: the buy took baseAmount and gave back the refund.
BaseBeforeBuy ==
    Plus(balanceOf(baseBalances, last.account),
         Minus(last.amount,
               IF Gt(last.remaining, Zero) THEN last.remaining ELSE Zero))

\* The step is a successful sale, by the trader of the successful buy made by
\* the call before it, of exactly the pre-tokens that buy returned.
SellsBackTheBuy ==
    /\ last.op = "swapBaseForPreToken" /\ last.status = "ok"
    /\ Succeeded("swapPreTokenForBase")
    /\ last'.account = last.account
    /\ last'.amount = last.ret

\* C30: no round-trip profit.  From any reachable pool state, overlapping
\* ranges included, a trader who makes a successful buy and then at once sells
\* all the pre-tokens received never ends with a larger base-token balance
\* than before the buy.
C30_NoRoundTripProfit ==
    [][SellsBackTheBuy =>
          Le(balanceOf(baseBalances', last'.account), BaseBeforeBuy)]_vars

\* C31: a successful buy delivers what it returns.  Every swapBaseForPreToken
\* call that returns without error returns a strictly positive amount, and the
\* trader's pre-token balance has grown by exactly the amount returned.
C31_BuyDelivers ==
    [][Succeeded("swapBaseForPreToken") =>
          /\ Gt(last'.ret, Zero)
          /\ balanceOf(preBalances', last'.account) =
                Plus(balanceOf(preBalances, last'.account), last'.ret)]_vars

\* C32: the pre-token reserve matches the ledger.  In every reachable state
\* of the pool the POOL account's pre-token balance equals preTokenReserve.
C32_PreReserveMatchesLedger ==
    balanceOf(preBalances, "POOL") = preTokenReserve

\* The sum of collateralAmount over the stored positions.
RECURSIVE CollateralSum(_)
CollateralSum(positions) ==
    IF positions = <<>> THEN Zero
    ELSE Plus(Head(positions).collateralAmount, CollateralSum(Tail(positions)))

\* The fee of the call recorded in `call`: baseAmount * feePercentage for a
\* successful buy, totalBaseTokenOutput * feePercentage for a successful sell
\* (which returns totalBaseTokenOutput less that fee), nothing otherwise.
SwapFee(call) ==
    IF call.status # "ok" THEN Zero
    ELSE IF call.op = "swapBaseForPreToken" THEN Times(call.amount, feePercentage)
    ELSE IF call.op = "swapPreTokenForBase"
         THEN Times(Divide(call.ret, Minus(One, feePercentage)), feePercentage)
    ELSE Zero

\* C33: collateral is never paid out by trading.  In every reachable state
\* POOL's base-token balance is at least the sum of collateralAmount over the
\* stored positions, and it equals baseReserve plus that sum plus the fees
\* accumulated by swaps: nothing else is in it at the start, and every call
\* adds exactly its own fee to what it holds beyond reserve and collateral.
C33_CollateralKept ==
    /\ [](Ge(balanceOf(baseBalances, "POOL"), CollateralSum(lpPositions)))
    /\ [](last.op = "constructor" =>
             balanceOf(baseBalances, "POOL") =
                Plus(baseReserve, CollateralSum(lpPositions)))
    /\ [][Minus(balanceOf(baseBalances', "POOL"),
                Plus(baseReserve', CollateralSum(lpPositions'))) =
          Plus(Minus(balanceOf(baseBalances, "POOL"),
                     Plus(baseReserve, CollateralSum(lpPositions))),
               SwapFee(last'))]_vars

\* The sum of initialPreTokenAmount over the stored positions.
RECURSIVE InitialPreTokenSum(_)
InitialPreTokenSum(positions) ==
    IF positions = <<>> THEN Zero
    ELSE Plus(Head(positions).initialPreTokenAmount,
              InitialPreTokenSum(Tail(positions)))

\* C34: the pre-token supply is backed by positions.  In every reachable
\* state of the one pool that mints the pre-token, its totalSupply equals the
\* sum of initialPreTokenAmount over the stored positions, and no swap and no
\* enterSettlementPhase call, successful or not, changes the totalSupply.
C34_SupplyBackedByPositions ==
    /\ [](preTotalSupply = InitialPreTokenSum(lpPositions))
    /\ [][last'.op \in {"swapBaseForPreToken", "swapPreTokenForBase",
                        "enterSettlementPhase"}
             => preTotalSupply' = preTotalSupply]_vars

\* Two positions are stored, swaps have run and the pool has been settled.
C34_Witness ==
    /\ Len(lpPositions) = 2 /\ swaps = MaxSwaps
    /\ isSettlementPhase /\ last.op = "enterSettlementPhase"
    /\ preTotalSupply = Rat(14)

\* The sum of the balances of all accounts.
RECURSIVE SumOfBalances(_, _)
SumOfBalances(balances, accounts) ==
    IF accounts = {} THEN Zero
    ELSE LET a == CHOOSE x \in accounts : TRUE
         IN  Plus(balances[a], SumOfBalances(balances, accounts \ {a}))

\* The call just made is one the Token must refuse: a mint with amount <= 0,
\* or a burn or transfer with amount <= 0 or more than the source holds.
MustBeRefused ==
    \/ ledger'.op = "mint" /\ Le(ledger'.amount, Zero)
    \/ /\ ledger'.op \in {"burn", "transfer"}
       /\ \/ Le(ledger'.amount, Zero)
          \/ Gt(ledger'.amount, ledger.balances[ledger'.from])

\* C35: ledger invariants.  After any sequence of mint, burn and transfer
\* calls on a Token no balance is negative and totalSupply equals the sum of
\* all balances; a mint with amount <= 0, and a burn or transfer with
\* amount <= 0 or amount greater than the source balance, returns false and
\* leaves every balance and totalSupply unchanged.
C35_LedgerInvariants ==
    /\ [](\A a \in Accounts : Ge(ledger.balances[a], Zero))
    /\ [](ledger.totalSupply = SumOfBalances(ledger.balances, Accounts))
    /\ [][MustBeRefused =>
             /\ ledger'.ok = FALSE
             /\ ledger'.balances = ledger.balances
             /\ ledger'.totalSupply = ledger.totalSupply]_allVars

\* A transfer of more than the sender holds has just been refused on a ledger
\* in which the sender and two other accounts hold part of the supply.
C35_Witness ==
    /\ ledger.op = "transfer" /\ ~ledger.ok /\ ledger.from = "LP1"
    /\ Gt(ledger.amount, ledger.balances[ledger.from])
    /\ Gt(ledger.balances[ledger.from], Zero)
    /\ Gt(ledger.balances["POOL"], Zero) /\ Gt(ledger.balances["T1"], Zero)
    /\ ledger.totalSupply = Frac(3, 2)

====
